---------------------------- MODULE Spec2Model ----------------------------
(***************************************************************************)
(* A model of the VirtualTaj BSP tree compiler (bspc.c) and of the GLData  *)
(* indexed mesh (gld.c): compilation of a triangle soup into a BSP tree,   *)
(* refactoring of the vertices into a shared table, and the byte streams   *)
(* written and read by the savers and loaders.                             *)
(*                                                                         *)
(* Numbers.  A position ordinate (GLfloat) is an integer counting steps of *)
(* 0.0005, the PLANE_THICKNESS of bspc.c; a texture ordinate is an integer *)
(* counting steps of 1/256, the BSP_TEX_ORD_EPSILON of bsp.h.  On that     *)
(* grid |a-b| <= 0.0011276372445 holds exactly when a and b are at most 2  *)
(* steps apart.  A plane keeps the cross product of the edges as its       *)
(* normal (A,B,C) without the division by its magnitude; the unit normal   *)
(* of the code is (A,B,C)/sqrt(A*A+B*B+C*C), so the signed distance of the *)
(* code is (A*x+B*y+C*z+D)/sqrt(A*A+B*B+C*C) and every comparison of a     *)
(* distance with the thickness is done on the squares, in exact            *)
(* arithmetic.  The model bounds (minX..maxZ) are kept in half steps, so   *)
(* that FLT_MIN, a positive value below one step, is the odd number 1.     *)
(***************************************************************************)
EXTENDS Integers, Sequences, FiniteSets, TLC

(***************************************************************************)
(* Program constants                                                       *)
(***************************************************************************)
\* bspc.c:45, in steps of 0.0005
PLANE_THICKNESS == 1
\* bsp.h:76, in steps of 0.0005 (0.0011276372445 / 0.0005 = 2.255...)
BSP_VERT_ORD_EPSILON == 2
\* bsp.h:85, in steps of 1/256
BSP_TEX_ORD_EPSILON == 1
\* gld.h:66 and gld.h:75
GLD_VERT_ORD_EPSILON == 2
GLD_TEX_ORD_EPSILON == 1
\* bspc.c:42
DEFS_BLK_SIZE == 200
\* bsp.h:66, gld.h:56
BSP_DATA_VER == 16
GLD_VER == 16
\* "BSP" and "GLD" with the terminating '\0' (bsp.h:65, gld.h:55)
BSP_FILE_MAGIC == <<66, 83, 80, 0>>
GLD_FILE_MAGIC == <<71, 76, 68, 0>>
\* <float.h>, in half steps: FLT_MAX is above every ordinate, FLT_MIN is the
\* smallest positive float, below one step
FLT_MAX == 2000000
FLT_MIN == 1

\* PointType (bsp.h:91) and TriType (bspc.c:110)
BELOW_PLANE == "BELOW_PLANE"
ON_PLANE == "ON_PLANE"
ABOVE_PLANE == "ABOVE_PLANE"
IN_BACK == "IN_BACK"
SPANNING == "SPANNING"
COINCIDENT == "COINCIDENT"
IN_FRONT == "IN_FRONT"

\* The null pointer
NULL == [null |-> TRUE]

(***************************************************************************)
(* Arithmetic helpers                                                      *)
(***************************************************************************)
\* fabs( )
Abs(x) == IF x < 0 THEN -x ELSE x

\* The conversion (GLfloat)( p / q) of an exact quotient to the nearest
\* representable ordinate
RoundDiv(p, q) ==
    LET pp == IF q < 0 THEN -p ELSE p
        qq == Abs(q)
    IN  (2 * pp + qq) \div (2 * qq)

(***************************************************************************)
(* Geometry kernel (bspc.c)                                                *)
(***************************************************************************)
\* GetPlaneForTri: ret = 0 and the plane of the triangle, or ret = -1 for a
\* degenerate triangle (the plane is then left as it was, shown as NULL)
GetPlaneForTri(V) ==
    LET AB == <<V[2][1] - V[1][1], V[2][2] - V[1][2], V[2][3] - V[1][3]>>
        AC == <<V[3][1] - V[1][1], V[3][2] - V[1][2], V[3][3] - V[1][3]>>
        N1 == AB[2] * AC[3] - AB[3] * AC[2]
        N2 == AB[3] * AC[1] - AB[1] * AC[3]
        N3 == AB[1] * AC[2] - AB[2] * AC[1]
        normSq == N1 * N1 + N2 * N2 + N3 * N3
    IN  \* normMag > DBL_EPSILON: on the grid every non-zero magnitude is
        \* at least 2.5e-7
        IF normSq > 0
        THEN [ret |-> 0,
              plane |-> [A |-> N1, B |-> N2, C |-> N3,
                         D |-> 0 - N1 * V[1][1] - N2 * V[1][2] - N3 * V[1][3]]]
        ELSE [ret |-> -1, plane |-> NULL]

\* The numerator of vDist: the plane equation with the point plugged in
PlaneLHS(aPt, p) == p.A * aPt[1] + p.B * aPt[2] + p.C * aPt[3] + p.D

\* The square of the magnitude of the kept normal
NormSq(p) == p.A * p.A + p.B * p.B + p.C * p.C

\* ClassifyPoint with < for <=
ClassifyPoint_Strict(aPt, partPlane) ==
    LET num == PlaneLHS(aPt, partPlane)
        lim == PLANE_THICKNESS * PLANE_THICKNESS * NormSq(partPlane)
    IN  IF num * num < lim THEN ON_PLANE
        ELSE IF num > 0 THEN ABOVE_PLANE
        ELSE BELOW_PLANE

\* ClassifyPoint: vDist = PlaneLHS / sqrt(NormSq) against PLANE_THICKNESS
ClassifyPoint(aPt, partPlane) ==
    LET num == PlaneLHS(aPt, partPlane)
        lim == PLANE_THICKNESS * PLANE_THICKNESS * NormSq(partPlane)
    IN  IF num * num <= lim THEN ON_PLANE
        ELSE IF num > 0 THEN ABOVE_PLANE
        ELSE BELOW_PLANE

\* ClassifyTri
ClassifyTri(aTri, partPlane) ==
    LET vType(i) == ClassifyPoint(aTri.V[i], partPlane)
        vOnPlane == Cardinality({i \in 1..3 : vType(i) = ON_PLANE})
        vAbove == Cardinality({i \in 1..3 : vType(i) = ABOVE_PLANE})
        vBelow == Cardinality({i \in 1..3 : vType(i) = BELOW_PLANE})
    IN  IF vOnPlane = 3 THEN COINCIDENT
        ELSE IF vAbove + vOnPlane = 3 THEN IN_FRONT
        ELSE IF vBelow + vOnPlane = 3 THEN IN_BACK
        ELSE SPANNING

\* IntersectPlaneLineSeg: t = numer / denom and the point v0 + t*(v1-v0);
\* with a zero denominator the code leaves res unwritten (found FALSE)
IntersectPlaneLineSeg(plane, v0, v1) ==
    LET lSeg == <<v1[1] - v0[1], v1[2] - v0[2], v1[3] - v0[3]>>
        denom == plane.A * lSeg[1] + plane.B * lSeg[2] + plane.C * lSeg[3]
        numer == 0 - PlaneLHS(v0, plane)
    IN  IF denom # 0
        THEN [found |-> TRUE, numer |-> numer, denom |-> denom,
              res |-> <<RoundDiv(v0[1] * denom + numer * lSeg[1], denom),
                        RoundDiv(v0[2] * denom + numer * lSeg[2], denom),
                        RoundDiv(v0[3] * denom + numer * lSeg[3], denom)>>]
        ELSE [found |-> FALSE, numer |-> numer, denom |-> denom, res |-> v0]

(***************************************************************************)
(* Working triangle lists (bspc.c)                                         *)
(***************************************************************************)
\* AddTriToList: the node becomes the head of the list
AddTriToList(list, node) == <<node>> \o list

\* RemoveTriFromList: the list without its k-th node
RemoveTriFromList(listHead, k) ==
    [i \in 1..(Len(listHead) - 1) |->
        IF i < k THEN listHead[i] ELSE listHead[i + 1]]

(***************************************************************************)
(* The BSP tree compiler (bspc.c)                                          *)
(***************************************************************************)
\* <limits.h>: the start value of minScore, above every score (a score is
\* at most the length of the list)
UINT_MAX == 2147483647

\* A BSPTriNode: the vertices, the plane, the texture index and mappings.
\* ord is bookkeeping of the model: the place of the triangle in the order
\* in which a tree node received its coplanar triangles (0: in no node)
BSPTriNode(V, plane, tIndex, T) ==
    [V |-> V, plane |-> plane, tIndex |-> tIndex, T |-> T, ord |-> 0]

\* The score of the candidate at place c of the list: the inner loop of
\* SelectNextRoot
RootScore(triList, c) ==
    LET kind(k) == ClassifyTri(triList[k], triList[c].plane)
        others == (1..Len(triList)) \ {c}
        splits == Cardinality({k \in others : kind(k) = SPANNING})
        inFront == Cardinality({k \in others : kind(k) = IN_FRONT})
        inBack == Cardinality({k \in others : kind(k) = IN_BACK})
    IN  splits + Abs(inFront - inBack)

\* SelectScan taking a candidate whose score equals the least so far
RECURSIVE SelectScan_LastBest(_, _, _, _)
SelectScan_LastBest(triList, c, minScore, bestNode) ==
    IF c > Len(triList) THEN bestNode
    ELSE LET score == RootScore(triList, c)
             newMin == IF score <= minScore THEN score ELSE minScore
             newBest == IF score <= minScore THEN c ELSE bestNode
         IN  IF score = 0 THEN newBest
             ELSE SelectScan_LastBest(triList, c + 1, newMin, newBest)

\* The outer loop of SelectNextRoot from the candidate at place c on
RECURSIVE SelectScan(_, _, _, _)
SelectScan(triList, c, minScore, bestNode) ==
    IF c > Len(triList) THEN bestNode
    ELSE LET score == RootScore(triList, c)
             newMin == IF score < minScore THEN score ELSE minScore
             newBest == IF score < minScore THEN c ELSE bestNode
         IN  IF score = 0 THEN newBest
             ELSE SelectScan(triList, c + 1, newMin, newBest)

\* SelectNextRoot: the place of the root triangle (0: bestNode is NULL) and
\* the rest of the list
SelectNextRoot(triList) ==
    LET bestNode == SelectScan(triList, 1, UINT_MAX, 0)
    IN  [root |-> bestNode,
         rest |-> IF bestNode # 0 /\ triList # <<>>
                  THEN RemoveTriFromList(triList, bestNode)
                  ELSE triList]

\* SplitWalk putting the intersection point of an edge into the rings
\* before the vertex the edge starts from
RECURSIVE SplitWalk_CutFirst(_, _, _, _, _)
SplitWalk_CutFirst(aTri, partnPlane, i, frontRing, backRing) ==
    IF i > 3 THEN [front |-> frontRing, back |-> backRing]
    ELSE
      LET vt(k) == ClassifyPoint(aTri.V[k], partnPlane)
          next1 == (i % 3) + 1
          own == [V |-> aTri.V[i], T |-> aTri.T[i]]
          crosses == \/ (vt(i) = ABOVE_PLANE /\ vt(next1) = BELOW_PLANE)
                     \/ (vt(i) = BELOW_PLANE /\ vt(next1) = ABOVE_PLANE)
          hit == IntersectPlaneLineSeg(partnPlane, aTri.V[i], aTri.V[next1])
          cut == [V |-> hit.res, T |-> aTri.T[i]]
          f0 == IF crosses THEN Append(frontRing, cut) ELSE frontRing
          b0 == IF crosses THEN Append(backRing, cut) ELSE backRing
      IN  SplitWalk_CutFirst(aTri, partnPlane, i + 1,
              IF vt(i) \in {ABOVE_PLANE, ON_PLANE} THEN Append(f0, own) ELSE f0,
              IF vt(i) \in {BELOW_PLANE, ON_PLANE} THEN Append(b0, own) ELSE b0)

\* The vertex rings of SplitTri after the vertices i..3 have been walked
RECURSIVE SplitWalk(_, _, _, _, _)
SplitWalk(aTri, partnPlane, i, frontRing, backRing) ==
    IF i > 3 THEN [front |-> frontRing, back |-> backRing]
    ELSE
      LET vt(k) == ClassifyPoint(aTri.V[k], partnPlane)
          next1 == (i % 3) + 1
          own == [V |-> aTri.V[i], T |-> aTri.T[i]]
          f1 == IF vt(i) \in {ABOVE_PLANE, ON_PLANE}
                THEN Append(frontRing, own) ELSE frontRing
          b1 == IF vt(i) \in {BELOW_PLANE, ON_PLANE}
                THEN Append(backRing, own) ELSE backRing
          crosses == \/ (vt(i) = ABOVE_PLANE /\ vt(next1) = BELOW_PLANE)
                     \/ (vt(i) = BELOW_PLANE /\ vt(next1) = ABOVE_PLANE)
          hit == IntersectPlaneLineSeg(partnPlane, aTri.V[i], aTri.V[next1])
          tcDiff == <<aTri.T[next1][1] - aTri.T[i][1],
                      aTri.T[next1][2] - aTri.T[i][2]>>
          cut == [V |-> hit.res,
                  T |-> <<RoundDiv(aTri.T[i][1] * hit.denom
                                     + hit.numer * tcDiff[1], hit.denom),
                          RoundDiv(aTri.T[i][2] * hit.denom
                                     + hit.numer * tcDiff[2], hit.denom)>>]
      IN  IF crosses
          THEN SplitWalk(aTri, partnPlane, i + 1,
                         Append(f1, cut), Append(b1, cut))
          ELSE SplitWalk(aTri, partnPlane, i + 1, f1, b1)

\* The triangles SplitTri makes of one ring of 3 or 4 vertices: the list
\* with its head first
RingTris(ring, tIndex) ==
    LET V1 == <<ring[1].V, ring[2].V, ring[3].V>>
        p1 == GetPlaneForTri(V1)
        first == IF p1.ret # 0 THEN <<>>
                 ELSE <<BSPTriNode(V1, p1.plane, tIndex,
                                   <<ring[1].T, ring[2].T, ring[3].T>>)>>
    IN  IF Len(ring) = 4
        THEN LET V2 == <<ring[3].V, ring[4].V, ring[1].V>>
                 p2 == GetPlaneForTri(V2)
             IN  IF p2.ret # 0 THEN first
                 ELSE AddTriToList(first,
                          BSPTriNode(V2, p2.plane, tIndex,
                                     <<ring[3].T, ring[4].T, ring[1].T>>))
        ELSE first

\* SplitTri making no triangles of the back ring
SplitTri_FrontOnly(aTri, partnPlane) ==
    LET rings == SplitWalk(aTri, partnPlane, 1, <<>>, <<>>)
    IN  [exited |-> Len(rings.back) < 3 \/ Len(rings.front) < 3,
         why |-> "",
         fList |-> IF Len(rings.front) \in {3, 4}
                   THEN RingTris(rings.front, aTri.tIndex) ELSE <<>>,
         bList |-> <<>>, front |-> rings.front, back |-> rings.back]

\* SplitTri once the three vertices have been walked (bspc.c:932-1096)
SplitRings(aTri, rings) ==
    LET numFrontVerts == Len(rings.front)
        numBackVerts == Len(rings.back)
    IN  IF numBackVerts < 3 \/ numFrontVerts < 3
        THEN [exited |-> TRUE, why |-> "non-spanning", fList |-> <<>>,
              bList |-> <<>>, front |-> rings.front, back |-> rings.back]
        ELSE IF numBackVerts > 4 \/ numFrontVerts > 4
        THEN [exited |-> TRUE, why |-> "SNAFU", fList |-> <<>>,
              bList |-> <<>>, front |-> rings.front, back |-> rings.back]
        ELSE [exited |-> FALSE, why |-> "",
              fList |-> RingTris(rings.front, aTri.tIndex),
              bList |-> RingTris(rings.back, aTri.tIndex),
              front |-> rings.front, back |-> rings.back]

\* SplitTri: exited is TRUE when it ends in one of its two fatal exits
SplitTri(aTri, partnPlane) ==
    SplitRings(aTri, SplitWalk(aTri, partnPlane, 1, <<>>, <<>>))

\* AddSplitList adding the head of the split list only
AddSplitList_HeadOnly(list, splitList) ==
    IF splitList = <<>> THEN list
    ELSE AddTriToList(list, splitList[1])

\* The lists a spanning triangle's pieces are added to (bspc.c:519-542)
AddSplitList(list, splitList) ==
    IF splitList = <<>> THEN list
    ELSE LET l1 == IF Len(splitList) > 1
                   THEN AddTriToList(list, splitList[2]) ELSE list
         IN  AddTriToList(l1, splitList[1])

\* The while loop of BuildBSPTree over the rest of the list (bspc.c:482-562)
RECURSIVE BuildLoop(_, _, _, _)

\* The loop after SplitTri has ended with sp on a SPANNING triangle
\* (bspc.c:519-547)
BuildSplit(rest, treeNode, frontList, backList, sp) ==
    IF sp.exited
    THEN [treeNode |-> treeNode, frontList |-> frontList,
          backList |-> backList, exited |-> TRUE]
    ELSE BuildLoop(rest, treeNode,
                   AddSplitList(frontList, sp.fList),
                   AddSplitList(backList, sp.bList))

BuildLoop(restOfList, treeNode, frontList, backList) ==
    IF restOfList = <<>>
    THEN [treeNode |-> treeNode, frontList |-> frontList,
          backList |-> backList, exited |-> FALSE]
    ELSE
      LET aTri == restOfList[1]
          rest == RemoveTriFromList(restOfList, 1)
          triKind == ClassifyTri(aTri, treeNode.partition)
      IN  CASE triKind = COINCIDENT ->
                 BuildLoop(rest,
                     [treeNode EXCEPT
                        !.triHead = AddTriToList(treeNode.triHead,
                                      [aTri EXCEPT !.ord = treeNode.numTri + 1]),
                        !.numTri = (treeNode.numTri + 1) % 65536],
                     frontList, backList)
            [] triKind = IN_FRONT ->
                 BuildLoop(rest, treeNode, AddTriToList(frontList, aTri),
                           backList)
            [] triKind = IN_BACK ->
                 BuildLoop(rest, treeNode, frontList,
                           AddTriToList(backList, aTri))
            [] OTHER ->
                 BuildSplit(rest, treeNode, frontList, backList,
                            SplitTri(aTri, treeNode.partition))

\* The triangles the while loop hands to free( ) (bspc.c:544-546), in the
\* order of the calls: the ones SplitTri has split
RECURSIVE BuildLoopFreed(_, _)
BuildLoopFreed(restOfList, partition) ==
    IF restOfList = <<>> THEN <<>>
    ELSE IF ClassifyTri(restOfList[1], partition) # SPANNING
    THEN BuildLoopFreed(RemoveTriFromList(restOfList, 1), partition)
    ELSE IF SplitTri(restOfList[1], partition).exited THEN <<>>
    ELSE <<restOfList[1]>>
         \o BuildLoopFreed(RemoveTriFromList(restOfList, 1), partition)

\* BuildBSPTree on the node at path with the list triList.  st carries the
\* nodes built so far (by path: <<>> is the root, "B" the back child, "F"
\* the front child), the counters nodesCreated, maxDepthSoFar, currDepth
\* and the way the run ended: "ok", "exit" (exit( EXIT_FAILURE)) or
\* "crash" (the NULL root of an empty list is dereferenced at bspc.c:472)
RECURSIVE BuildBSPTree(_, _, _)

\* The recursion of BuildBSPTree into the list of one side ("F" or "B") of
\* the node at path, if the run has not ended and the list is not empty
BuildSide(path, side, list, st) ==
    IF st.end = "ok" /\ list # <<>>
    THEN BuildBSPTree(Append(path, side), list, st)
    ELSE st

\* The return of BuildBSPTree: currDepth--
BuildReturn(st) ==
    IF st.end = "ok"
    THEN [st EXCEPT !.currDepth = (st.currDepth - 1) % 65536]
    ELSE st

\* The entry of BuildBSPTree: nodesCreated++, currDepth++ and the new
\* maxDepthSoFar
BuildEnter(st) ==
    LET depth == (st.currDepth + 1) % 65536
    IN  [st EXCEPT !.nodesCreated = (st.nodesCreated + 1) % 65536,
                   !.currDepth = depth,
                   !.maxDepthSoFar = IF depth > st.maxDepthSoFar
                                     THEN depth ELSE st.maxDepthSoFar]

\* The tree node made for the root triangle (bspc.c:472-480)
BuildNode(rootTri) ==
    [partition |-> rootTri.plane,
     triHead |-> <<[rootTri EXCEPT !.ord = 1]>>,
     numTri |-> 1, back |-> FALSE, front |-> FALSE]

\* The node at path once the while loop has ended with lp
BuildStore(path, lp, st) ==
    [st EXCEPT !.nodes = (path :> [lp.treeNode EXCEPT
                                     !.front = (lp.frontList # <<>>),
                                     !.back = (lp.backList # <<>>)]) @@ @]

\* BuildBSPTree after its while loop has ended with lp: the front list is
\* built before the back list (bspc.c:565-604)
BuildLists(path, lp, st) ==
    IF lp.exited THEN [BuildStore(path, lp, st) EXCEPT !.end = "exit"]
    ELSE BuildReturn(
             BuildSide(path, "B", lp.backList,
                 BuildSide(path, "F", lp.frontList,
                     BuildStore(path, lp, st))))

\* BuildBSPTree once SelectNextRoot has returned sel
BuildRooted(path, triList, sel, st) ==
    IF sel.root = 0 THEN [st EXCEPT !.end = "crash"]
    ELSE BuildLists(path,
             BuildLoop(sel.rest, BuildNode(triList[sel.root]), <<>>, <<>>),
             st)

BuildBSPTree(path, triList, st) ==
    BuildRooted(path, triList, SelectNextRoot(triList), BuildEnter(st))

\* BuildBSPTree from its entry to the end of its while loop, once
\* SelectNextRoot has returned sel (bspc.c:470-562): the place of the root,
\* the rest of the list, the node and the two lists after the loop, and the
\* triangles freed
BuildStepOn(triList, sel) ==
    [root |-> sel.root,
     rest |-> sel.rest,
     lp |-> BuildLoop(sel.rest, BuildNode(triList[sel.root]), <<>>, <<>>),
     freed |-> BuildLoopFreed(sel.rest, triList[sel.root].plane)]

BuildStep(triList) == BuildStepOn(triList, SelectNextRoot(triList))

(***************************************************************************)
(* Refactoring of the vertices (bspc.c)                                    *)
(***************************************************************************)
\* BSPVertMatch with < for <=
BSPVertMatch_Strict(def, v, t) ==
    /\ Abs(def.V[1] - v[1]) < BSP_VERT_ORD_EPSILON
    /\ Abs(def.V[2] - v[2]) < BSP_VERT_ORD_EPSILON
    /\ Abs(def.V[3] - v[3]) < BSP_VERT_ORD_EPSILON
    /\ Abs(def.T[1] - t[1]) < BSP_TEX_ORD_EPSILON
    /\ Abs(def.T[2] - t[2]) < BSP_TEX_ORD_EPSILON

\* The comparison of GetVertDefIndex (bspc.c:2234-2238) of a table entry
\* with the vertex v and its texture mapping t
BSPVertMatch(def, v, t) ==
    /\ Abs(def.V[1] - v[1]) <= BSP_VERT_ORD_EPSILON
    /\ Abs(def.V[2] - v[2]) <= BSP_VERT_ORD_EPSILON
    /\ Abs(def.V[3] - v[3]) <= BSP_VERT_ORD_EPSILON
    /\ Abs(def.T[1] - t[1]) <= BSP_TEX_ORD_EPSILON
    /\ Abs(def.T[2] - t[2]) <= BSP_TEX_ORD_EPSILON

\* The model bounds after the vertex v has been appended to a table
\* (bspc.c:2279-2286); the bounds are in half steps
GrowBounds(b, v) ==
    [minX |-> IF 2 * v[1] < b.minX THEN 2 * v[1] ELSE b.minX,
     maxX |-> IF 2 * v[1] > b.maxX THEN 2 * v[1] ELSE b.maxX,
     minY |-> IF 2 * v[2] < b.minY THEN 2 * v[2] ELSE b.minY,
     maxY |-> IF 2 * v[2] > b.maxY THEN 2 * v[2] ELSE b.maxY,
     minZ |-> IF 2 * v[3] < b.minZ THEN 2 * v[3] ELSE b.minZ,
     maxZ |-> IF 2 * v[3] > b.maxZ THEN 2 * v[3] ELSE b.maxZ]

\* VertScan counting the entries from 0 again in every block
RECURSIVE VertScan_CountPerBlock(_, _, _, _, _)
VertScan_CountPerBlock(blocks, b, v, t, retVal) ==
    IF b > Len(blocks) THEN [kind |-> "end", retVal |-> retVal]
    ELSE LET blk == blocks[b]
             hits == {i \in 1..Len(blk) : BSPVertMatch(blk[i], v, t)}
         IN  IF hits # {}
             THEN LET i == CHOOSE h \in hits : \A o \in hits : h <= o
                  IN  [kind |-> "match", b |-> b, i |-> i,
                       retVal |-> (i - 1) % 65536]
             ELSE IF Len(blk) < DEFS_BLK_SIZE
             THEN [kind |-> "room", b |-> b,
                   retVal |-> (retVal + Len(blk)) % 65536]
             ELSE VertScan_CountPerBlock(blocks, b + 1, v, t,
                                         (retVal + Len(blk)) % 65536)

\* The while loop of GetVertDefIndex from block b of the chain on, retVal
\* counting the entries passed: a match in block b at place i, free room in
\* block b, or the end of the chain
RECURSIVE VertScan(_, _, _, _, _)
VertScan(blocks, b, v, t, retVal) ==
    IF b > Len(blocks) THEN [kind |-> "end", retVal |-> retVal]
    ELSE LET blk == blocks[b]
             hits == {i \in 1..Len(blk) : BSPVertMatch(blk[i], v, t)}
         IN  IF hits # {}
             THEN LET i == CHOOSE h \in hits : \A o \in hits : h <= o
                  IN  [kind |-> "match", b |-> b, i |-> i,
                       retVal |-> (retVal + i - 1) % 65536]
             ELSE IF Len(blk) < DEFS_BLK_SIZE
             THEN [kind |-> "room", b |-> b,
                   retVal |-> (retVal + Len(blk)) % 65536]
             ELSE VertScan(blocks, b + 1, v, t, (retVal + Len(blk)) % 65536)

\* GetVertDefIndex: the index, resV and the statics after the call.  g holds
\* the statics vertDefsPtr (the chain of blocks), numVertDefs and the bounds
GetVertDefIndex(v, t, g) ==
    LET sc == VertScan(g.vertDefsPtr, 1, v, t, 0)
        def == [V |-> v, T |-> t]
    IN  CASE sc.kind = "match" ->
               [retVal |-> sc.retVal, resV |-> g.vertDefsPtr[sc.b][sc.i].V,
                g |-> g]
          [] sc.kind = "room" ->
               [retVal |-> sc.retVal, resV |-> v,
                g |-> [g EXCEPT
                         !.vertDefsPtr[sc.b] = Append(@, def),
                         !.numVertDefs = (@ + 1) % 65536,
                         !.bounds = GrowBounds(@, v)]]
          [] OTHER ->
               [retVal |-> sc.retVal, resV |-> v,
                g |-> [g EXCEPT
                         !.vertDefsPtr = Append(@, <<def>>),
                         !.numVertDefs = (@ + 1) % 65536,
                         !.bounds = GrowBounds(@, v)]]

\* ConvLoop keeping a triangle whose three indices are not all different
RECURSIVE ConvLoop_KeepsFolded(_, _, _, _, _)
ConvLoop_KeepsFolded(triHead, k, node, ords, g) ==
    IF k > Len(triHead) THEN [node |-> node, ords |-> ords, g |-> g]
    ELSE
      LET tmpTri == triHead[k]
          r0 == GetVertDefIndex(tmpTri.V[1], tmpTri.T[1], g)
          r1 == GetVertDefIndex(tmpTri.V[2], tmpTri.T[2], r0.g)
          r2 == GetVertDefIndex(tmpTri.V[3], tmpTri.T[3], r1.g)
          vInd == <<r0.retVal, r1.retVal, r2.retVal>>
          tmpPlane == GetPlaneForTri(<<r0.resV, r1.resV, r2.resV>>)
      IN  ConvLoop_KeepsFolded(triHead, k + 1,
              [node EXCEPT
                 !.partPlane = IF Len(node.triDefs) = 0 /\ tmpPlane.ret = 0
                               THEN tmpPlane.plane ELSE @,
                 !.triDefs = Append(@, [texIndex |-> tmpTri.tIndex,
                                        vIndices |-> vInd])],
              Append(ords, tmpTri.ord),
              [r2.g EXCEPT !.texCtrs[tmpTri.tIndex + 1] = @ + 1])

\* ConvLoop leaving the plane of the builder in the node
RECURSIVE ConvLoop_KeepsPlane(_, _, _, _, _)
ConvLoop_KeepsPlane(triHead, k, node, ords, g) ==
    IF k > Len(triHead) THEN [node |-> node, ords |-> ords, g |-> g]
    ELSE
      LET tmpTri == triHead[k]
          r0 == GetVertDefIndex(tmpTri.V[1], tmpTri.T[1], g)
          r1 == GetVertDefIndex(tmpTri.V[2], tmpTri.T[2], r0.g)
          r2 == GetVertDefIndex(tmpTri.V[3], tmpTri.T[3], r1.g)
          vInd == <<r0.retVal, r1.retVal, r2.retVal>>
          tmpPlane == GetPlaneForTri(<<r0.resV, r1.resV, r2.resV>>)
      IN  IF \/ vInd[1] = vInd[2]
             \/ vInd[2] = vInd[3]
             \/ vInd[3] = vInd[1]
             \/ tmpPlane.ret # 0
          THEN ConvLoop_KeepsPlane(triHead, k + 1,
                        [node EXCEPT !.numTri = (@ - 1) % 65536], ords, r2.g)
          ELSE ConvLoop_KeepsPlane(triHead, k + 1,
                   [node EXCEPT
                      !.triDefs = Append(@, [texIndex |-> tmpTri.tIndex,
                                             vIndices |-> vInd])],
                   Append(ords, tmpTri.ord),
                   [r2.g EXCEPT !.texCtrs[tmpTri.tIndex + 1] = @ + 1])

\* The while loop of ConvIntBSPTree over the triangles from place k of the
\* coplanar list on (bspc.c:2087-2142).  node is the BSPTree node being
\* filled, ords the ord of each triangle kept so far
RECURSIVE ConvLoop(_, _, _, _, _)
ConvLoop(triHead, k, node, ords, g) ==
    IF k > Len(triHead) THEN [node |-> node, ords |-> ords, g |-> g]
    ELSE
      LET tmpTri == triHead[k]
          r0 == GetVertDefIndex(tmpTri.V[1], tmpTri.T[1], g)
          r1 == GetVertDefIndex(tmpTri.V[2], tmpTri.T[2], r0.g)
          r2 == GetVertDefIndex(tmpTri.V[3], tmpTri.T[3], r1.g)
          vInd == <<r0.retVal, r1.retVal, r2.retVal>>
          tmpPlane == GetPlaneForTri(<<r0.resV, r1.resV, r2.resV>>)
      IN  IF \/ vInd[1] = vInd[2]
             \/ vInd[2] = vInd[3]
             \/ vInd[3] = vInd[1]
             \/ tmpPlane.ret # 0
          THEN ConvLoop(triHead, k + 1,
                        [node EXCEPT !.numTri = (@ - 1) % 65536], ords, r2.g)
          ELSE ConvLoop(triHead, k + 1,
                   [node EXCEPT
                      !.partPlane = IF Len(node.triDefs) = 0
                                    THEN tmpPlane.plane ELSE @,
                      !.triDefs = Append(@, [texIndex |-> tmpTri.tIndex,
                                             vIndices |-> vInd])],
                   Append(ords, tmpTri.ord),
                   [r2.g EXCEPT !.texCtrs[tmpTri.tIndex + 1] = @ + 1])

\* ConvIntBSPTree on the internal node at path.  g carries the statics, the
\* BSPTree nodes made so far (tree, by path) and, as bookkeeping of the
\* model, for every node the ord of the triangles kept (srcOrd, by path)
RECURSIVE ConvIntBSPTree(_, _, _)

\* The recursion of ConvIntBSPTree into the child on one side ("B" or "F")
\* of the node at path, if there is one
ConvSide(intNodes, path, side, has, g) ==
    IF has THEN ConvIntBSPTree(intNodes, Append(path, side), g) ELSE g

\* The BSPTree node ConvIntBSPTree starts from (bspc.c:2066-2071)
ConvNode(intTree) ==
    [numTri |-> intTree.numTri, triDefs |-> <<>>,
     partPlane |-> intTree.partition,
     back |-> intTree.back, front |-> intTree.front]

\* ConvStore without the addition to trianglesCreated
ConvStore_NoCount(path, lp) ==
    [lp.g EXCEPT
       !.tree = (path :> lp.node) @@ @,
       !.srcOrd = (path :> lp.ords) @@ @,
       !.nullDefs = IF lp.node.numTri = 0 THEN @ \cup {path} ELSE @]

\* The node at path once the while loop has ended with lp.  nullDefs is
\* bookkeeping of the model: the nodes whose triDefs was freed and set to
\* NULL because no triangle was left (bspc.c:2144-2149); such a node has
\* the empty sequence for its triDefs
ConvStore(path, lp) ==
    [lp.g EXCEPT
       !.trianglesCreated = @ + lp.node.numTri,
       !.tree = (path :> lp.node) @@ @,
       !.srcOrd = (path :> lp.ords) @@ @,
       !.nullDefs = IF lp.node.numTri = 0 THEN @ \cup {path} ELSE @]

\* The back child is converted before the front child (bspc.c:2184-2204)
ConvIntBSPTree(intNodes, path, g) ==
    ConvSide(intNodes, path, "F", intNodes[path].front,
        ConvSide(intNodes, path, "B", intNodes[path].back,
            ConvStore(path,
                ConvLoop(intNodes[path].triHead, 1, ConvNode(intNodes[path]),
                         <<>>, g))))

\* The list of BSPTriNode-s GenBSPTreeData makes of the input triangles
\* i..nTri (bspc.c:240-292); triangles without a plane are skipped
RECURSIVE InputList(_, _, _)
InputList(inTris, i, triList) ==
    IF i > Len(inTris) THEN triList
    ELSE LET p == GetPlaneForTri(inTris[i].V)
         IN  IF p.ret # 0 THEN InputList(inTris, i + 1, triList)
             ELSE InputList(inTris, i + 1,
                      AddTriToList(triList,
                          BSPTriNode(inTris[i].V, p.plane, inTris[i].tIndex,
                                     inTris[i].T)))

\* The vertex definitions of the chain in block order (bspc.c:389-410)
RECURSIVE FlattenDefs(_, _)
FlattenDefs(blocks, b) ==
    IF b > Len(blocks) THEN <<>>
    ELSE blocks[b] \o FlattenDefs(blocks, b + 1)

\* What GenBSPTreeData returns once the tree built has been converted
\* (bspc.c:352-425)
GenResult(nMaps, texMapNames, built, g) ==
    LET defs == FlattenDefs(g.vertDefsPtr, 1)
    IN  [end |-> "ok",
         ret |-> [nMaps |-> nMaps,
                  mapNames |-> texMapNames,
                  mapTriNums |-> g.texCtrs,
                  nVertices |-> g.numVertDefs,
                  vertCoords |-> [i \in 1..Len(defs) |-> defs[i].V],
                  texCoords |-> [i \in 1..Len(defs) |-> defs[i].T],
                  minX |-> g.bounds.minX, maxX |-> g.bounds.maxX,
                  minY |-> g.bounds.minY, maxY |-> g.bounds.maxY,
                  minZ |-> g.bounds.minZ, maxZ |-> g.bounds.maxZ,
                  maxDepth |-> built.maxDepthSoFar,
                  numNodes |-> built.nodesCreated,
                  numTri |-> g.trianglesCreated,
                  bspTree |-> g.tree],
         intNodes |-> built.nodes,
         srcOrd |-> g.srcOrd,
         nullDefs |-> g.nullDefs,
         statics |-> [numVertDefs |-> g.numVertDefs,
                      bounds |-> g.bounds,
                      nodesCreated |-> built.nodesCreated,
                      trianglesCreated |-> g.trianglesCreated,
                      maxDepthSoFar |-> built.maxDepthSoFar,
                      currDepth |-> built.currDepth]]

\* The static data of bspc.c (bspc.c:155-167) when the program starts:
\* objects of static storage hold 0
StartStatics ==
    [numVertDefs |-> 0,
     bounds |-> [minX |-> 0, maxX |-> 0, minY |-> 0, maxY |-> 0,
                 minZ |-> 0, maxZ |-> 0],
     nodesCreated |-> 0, trianglesCreated |-> 0, maxDepthSoFar |-> 0,
     currDepth |-> 0]

\* BuildStart without the assignment nodesCreated = 0U
BuildStart_CountsOn(statics) ==
    [nodes |-> << >>, nodesCreated |-> statics.nodesCreated,
     maxDepthSoFar |-> 0, currDepth |-> 0, end |-> "ok"]

\* The static data BuildBSPTree starts from: what GenBSPTreeData makes of
\* the static data it finds (bspc.c:318-320)
BuildStart(statics) ==
    [nodes |-> << >>, nodesCreated |-> 0, maxDepthSoFar |-> 0,
     currDepth |-> 0, end |-> "ok"]

\* The static data ConvIntBSPTree starts from: what GenBSPTreeData makes of
\* the static data it finds (texCtrs bspc.c:207-229, trianglesCreated
\* bspc.c:321, the bounds and the vertex table bspc.c:342-346)
ConvStart(statics, nMaps) ==
    [vertDefsPtr |-> <<>>, numVertDefs |-> 0,
     bounds |-> [minX |-> FLT_MAX, maxX |-> FLT_MIN,
                 minY |-> FLT_MAX, maxY |-> FLT_MIN,
                 minZ |-> FLT_MAX, maxZ |-> FLT_MIN],
     texCtrs |-> [i \in 1..nMaps |-> 0],
     trianglesCreated |-> 0,
     tree |-> << >>, srcOrd |-> << >>, nullDefs |-> {}]

\* GenBSPTreeData once BuildBSPTree has ended with built (bspc.c:325-350);
\* start is the static data the conversion starts from
GenConverted(nMaps, texMapNames, built, start) ==
    IF built.end # "ok"
    THEN [end |-> built.end, ret |-> NULL, intNodes |-> built.nodes,
          srcOrd |-> << >>, nullDefs |-> {}, statics |-> NULL]
    ELSE GenResult(nMaps, texMapNames, built,
                   ConvIntBSPTree(built.nodes, <<>>, start))

\* GenBSPTreeData called with the static data as an earlier call, or the
\* start of the program, left them
GenBSPTreeDataIn(statics, inTris, nMaps, texMapNames) ==
    GenConverted(nMaps, texMapNames,
        BuildBSPTree(<<>>, InputList(inTris, 1, <<>>), BuildStart(statics)),
        ConvStart(statics, nMaps))

\* GenBSPTreeData: end is "ok", "exit" or "crash"; with "ok" ret is the
\* BSPTreeData, intNodes the internal tree it was converted from, srcOrd the
\* bookkeeping of ConvIntBSPTree and statics the static data left behind
GenBSPTreeData(inTris, nMaps, texMapNames) ==
    GenBSPTreeDataIn(StartStatics, inTris, nMaps, texMapNames)

(***************************************************************************)
(* Byte streams                                                            *)
(*                                                                         *)
(* A stream is the sequence of the bytes (0..255) of a file.  fwrite and   *)
(* fread move the bytes of an object as they lie in memory: a Uint16 as 2  *)
(* and a Uint32 as 4 bytes, low byte first, a GLfloat as the 4 and a       *)
(* GLdouble as the 8 bytes of its number in two's complement.              *)
(***************************************************************************)
PutU8(v) == <<v % 256>>

PutU16(v) == <<v % 256, (v \div 256) % 256>>

PutU32(v) ==
    <<v % 256, (v \div 256) % 256, (v \div 65536) % 256,
      (v \div 16777216) % 256>>

PutF32(x) == PutU32(x)

PutF64(x) ==
    LET ext == IF x < 0 THEN 255 ELSE 0
    IN  PutU32(x) \o <<ext, ext, ext, ext>>

\* The byte at place pos of a stream whose first byte is at place 1
ByteAt(s, pos) == s[pos]

GetU8(s, pos) == ByteAt(s, pos)

GetU16(s, pos) == ByteAt(s, pos) + 256 * ByteAt(s, pos + 1)

GetU32(s, pos) ==
    ByteAt(s, pos) + 256 * ByteAt(s, pos + 1) + 65536 * ByteAt(s, pos + 2)
        + 16777216 * ByteAt(s, pos + 3)

GetF32(s, pos) ==
    LET top == ByteAt(s, pos + 3)
    IN  ByteAt(s, pos) + 256 * ByteAt(s, pos + 1)
            + 65536 * ByteAt(s, pos + 2)
            + 16777216 * (IF top >= 128 THEN top - 256 ELSE top)

GetF64(s, pos) == GetF32(s, pos)

\* The streams of a sequence of streams, one after the other
RECURSIVE Concat(_)
Concat(ss) == IF ss = <<>> THEN <<>> ELSE Head(ss) \o Concat(Tail(ss))

\* The header SaveBSPTreeData writes, from nMaps to maxZ
\* (bspc.c:1503-1555).  A name is written with its terminating '\0'
PutHeader(d) ==
    PutU16(d.nMaps)
    \o Concat([i \in 1..d.nMaps |-> d.mapNames[i] \o <<0>>])
    \o Concat([i \in 1..d.nMaps |-> PutU32(d.mapTriNums[i])])
    \o PutU16(d.nVertices)
    \o Concat([i \in 1..d.nVertices |->
                  PutF32(d.vertCoords[i][1]) \o PutF32(d.vertCoords[i][2])
                  \o PutF32(d.vertCoords[i][3])])
    \o Concat([i \in 1..d.nVertices |->
                  PutF32(d.texCoords[i][1]) \o PutF32(d.texCoords[i][2])])
    \o PutF32(d.minX) \o PutF32(d.maxX)
    \o PutF32(d.minY) \o PutF32(d.maxY)
    \o PutF32(d.minZ) \o PutF32(d.maxZ)

\* The four sub-tree flags of the format (bsp.h:47-49) and the bits of a
\* back and of a front sub-tree (bspc.c:1632, bspc.c:1638)
CFLAG_BACK == 176
CFLAG_FRONT == 15
CFlags == {0, CFLAG_BACK, CFLAG_FRONT, CFLAG_BACK + CFLAG_FRONT}

\* WriteBSPTree on the node at path of the tree
RECURSIVE WriteBSPTree(_, _)

\* WriteBSPTree writing the front sub-tree before the back sub-tree
WriteBSPTree_FrontFirst(tree, path) ==
    LET root == tree[path]
        cFlag == (IF root.back THEN CFLAG_BACK ELSE 0)
                 + (IF root.front THEN CFLAG_FRONT ELSE 0)
    IN  PutU16(root.numTri)
        \o Concat([i \in 1..root.numTri |->
                      PutU16(root.triDefs[i].texIndex)
                      \o PutU16(root.triDefs[i].vIndices[1])
                      \o PutU16(root.triDefs[i].vIndices[2])
                      \o PutU16(root.triDefs[i].vIndices[3])])
        \o (IF root.numTri = 0
            THEN PutF64(root.partPlane.A) \o PutF64(root.partPlane.B)
                 \o PutF64(root.partPlane.C) \o PutF64(root.partPlane.D)
            ELSE <<>>)
        \o PutU8(cFlag)
        \o (IF root.front THEN WriteBSPTree(tree, Append(path, "F")) ELSE <<>>)
        \o (IF root.back THEN WriteBSPTree(tree, Append(path, "B")) ELSE <<>>)

WriteBSPTree(tree, path) ==
    LET root == tree[path]
        cFlag == (IF root.back THEN CFLAG_BACK ELSE 0)
                 + (IF root.front THEN CFLAG_FRONT ELSE 0)
    IN  PutU16(root.numTri)
        \o Concat([i \in 1..root.numTri |->
                      PutU16(root.triDefs[i].texIndex)
                      \o PutU16(root.triDefs[i].vIndices[1])
                      \o PutU16(root.triDefs[i].vIndices[2])
                      \o PutU16(root.triDefs[i].vIndices[3])])
        \o (IF root.numTri = 0
            THEN PutF64(root.partPlane.A) \o PutF64(root.partPlane.B)
                 \o PutF64(root.partPlane.C) \o PutF64(root.partPlane.D)
            ELSE <<>>)
        \o PutU8(cFlag)
        \o (IF root.back THEN WriteBSPTree(tree, Append(path, "B")) ELSE <<>>)
        \o (IF root.front THEN WriteBSPTree(tree, Append(path, "F")) ELSE <<>>)

\* SaveBSPTreeData: the bytes written to outFile
SaveBSPTreeData(d) ==
    IF d = NULL THEN <<>>
    ELSE BSP_FILE_MAGIC
         \o PutU8(BSP_DATA_VER)
         \o PutHeader(d)
         \o PutU16(d.maxDepth) \o PutU16(d.numNodes) \o PutU32(d.numTri)
         \o WriteBSPTree(d.bspTree, <<>>)

\* The longest texture map name a loader takes in (bspc.c:1765, gld.c:539)
MAX_NAME_LEN == 255

\* strcmp( a, b) == 0 on two strings held in arrays of 4 chars, from
\* place i on
RECURSIVE StrEqual(_, _, _)

\* StrEqual comparing the three chars before the '\0' of the magic only
StrEqual_NoTerminator(a, b, i) ==
    a[1] = b[1] /\ a[2] = b[2] /\ a[3] = b[3]

StrEqual(a, b, i) ==
    IF i > 4 THEN TRUE
    ELSE IF a[i] # b[i] THEN FALSE
    ELSE IF a[i] = 0 THEN TRUE
    ELSE StrEqual(a, b, i + 1)

\* The do-while loop that reads one texture map name (bspc.c:1759-1768):
\* the number j of the last char read, from the char at pos + j on
RECURSIVE NameEnd(_, _, _)
NameEnd(s, pos, j) ==
    IF ByteAt(s, pos + j) # 0 /\ j < MAX_NAME_LEN
    THEN NameEnd(s, pos, j + 1) ELSE j

\* The name read at pos and the place after it.  inpTexName[255] is set to
\* '\0', so at most 255 chars make the name
ReadName(s, pos) ==
    LET j == NameEnd(s, pos, 0)
        len == IF ByteAt(s, pos + j) = 0 THEN j ELSE MAX_NAME_LEN
    IN  [name |-> [k \in 1..len |-> ByteAt(s, pos + k - 1)],
         pos |-> pos + j + 1]

\* The names i..nMaps read from pos on
RECURSIVE ReadNames(_, _, _, _, _)
ReadNames(s, pos, i, nMaps, names) ==
    IF i > nMaps THEN [names |-> names, pos |-> pos]
    ELSE LET r == ReadName(s, pos)
         IN  ReadNames(s, r.pos, i + 1, nMaps, Append(names, r.name))

\* The header LoadBSPTreeData reads, from nMaps to maxZ
\* (bspc.c:1733-1844), and the place after it
GetHeader(s, pos) ==
    LET nMaps == GetU16(s, pos)
        nm == ReadNames(s, pos + 2, 1, nMaps, <<>>)
        pNums == nm.pos
        pVert == pNums + 4 * nMaps
        nVertices == GetU16(s, pVert)
        pV == pVert + 2
        pT == pV + 12 * nVertices
        pB == pT + 8 * nVertices
    IN  [nMaps |-> nMaps,
         mapNames |-> nm.names,
         mapTriNums |-> [i \in 1..nMaps |-> GetU32(s, pNums + 4 * (i - 1))],
         nVertices |-> nVertices,
         vertCoords |-> [i \in 1..nVertices |->
                           <<GetF32(s, pV + 12 * (i - 1)),
                             GetF32(s, pV + 12 * (i - 1) + 4),
                             GetF32(s, pV + 12 * (i - 1) + 8)>>],
         texCoords |-> [i \in 1..nVertices |->
                          <<GetF32(s, pT + 8 * (i - 1)),
                            GetF32(s, pT + 8 * (i - 1) + 4)>>],
         minX |-> GetF32(s, pB), maxX |-> GetF32(s, pB + 4),
         minY |-> GetF32(s, pB + 8), maxY |-> GetF32(s, pB + 12),
         minZ |-> GetF32(s, pB + 16), maxZ |-> GetF32(s, pB + 20),
         pos |-> pB + 24]

\* ReadBSPTree for the node at path, reading from pos on.  r carries the
\* nodes read so far (tree), the place in the stream and the way the
\* reading ended: "ok" or "exit" (exit( EXIT_FAILURE)); as bookkeeping of
\* the model it also carries the paths of the nodes in the order they were
\* read (order) and the places of their cFlag bytes (cFlagAt)
RECURSIVE ReadBSPTree(_, _, _, _)

\* The recursion of ReadBSPTree into the child on one side ("B" or "F") of
\* the node at path, if the record has the flag of that child
ReadSide(s, vertCoords, path, side, has, r) ==
    IF r.end = "ok" /\ has
    THEN ReadBSPTree(s, vertCoords, Append(path, side), r)
    ELSE r

ReadBSPTree(s, vertCoords, path, r) ==
    LET pos == r.pos
        numTri == GetU16(s, pos)
        triDefs == [i \in 1..numTri |->
                      [texIndex |-> GetU16(s, pos + 2 + 8 * (i - 1)),
                       vIndices |-> <<GetU16(s, pos + 2 + 8 * (i - 1) + 2),
                                      GetU16(s, pos + 2 + 8 * (i - 1) + 4),
                                      GetU16(s, pos + 2 + 8 * (i - 1) + 6)>>]]
        pPlane == pos + 2 + 8 * numTri
        got == IF numTri = 0
               THEN [ret |-> 0,
                     plane |-> [A |-> GetF64(s, pPlane),
                                B |-> GetF64(s, pPlane + 8),
                                C |-> GetF64(s, pPlane + 16),
                                D |-> GetF64(s, pPlane + 24)]]
               ELSE GetPlaneForTri(
                        <<vertCoords[triDefs[1].vIndices[1] + 1],
                          vertCoords[triDefs[1].vIndices[2] + 1],
                          vertCoords[triDefs[1].vIndices[3] + 1]>>)
        pFlag == IF numTri = 0 THEN pPlane + 32 ELSE pPlane
        cFlag == GetU8(s, pFlag)
        hasBackTree == cFlag \in {CFLAG_BACK, CFLAG_BACK + CFLAG_FRONT}
        hasFrontTree == cFlag \in {CFLAG_FRONT, CFLAG_BACK + CFLAG_FRONT}
        node == [numTri |-> numTri, triDefs |-> triDefs,
                 partPlane |-> got.plane,
                 back |-> hasBackTree, front |-> hasFrontTree]
    IN  IF got.ret # 0
        THEN [r EXCEPT !.pos = pPlane, !.end = "exit"]
        ELSE IF cFlag \notin CFlags
        THEN [r EXCEPT !.pos = pFlag + 1, !.end = "exit"]
        ELSE
          ReadSide(s, vertCoords, path, "F", hasFrontTree,
              ReadSide(s, vertCoords, path, "B", hasBackTree,
                  [r EXCEPT !.pos = pFlag + 1,
                            !.tree = (path :> node) @@ @,
                            !.order = Append(@, path),
                            !.cFlagAt = Append(@, pFlag)]))

\* What fread leaves in savedSig and in the version byte: the bytes of the
\* stream, and past its end the bytes the fresh block happened to hold
\* (heap) and the 0 the version byte was set to
SigRead(s, heap) ==
    [savedSig |-> [i \in 1..4 |-> IF i <= Len(s) THEN s[i] ELSE heap[i]],
     ver |-> IF Len(s) >= 5 THEN s[5] ELSE 0,
     pos |-> IF Len(s) >= 5 THEN 5 ELSE Len(s)]

\* A FILE open on a stream of bytes; a FILE pointer is such a FILE or NULL
File(bytes) == [null |-> FALSE, bytes |-> bytes]

\* What LoadBSPTreeData returns once ReadBSPTree has ended with t, the
\* header h and the counters having been read (bspc.c:1853-1889)
LoadResult(h, maxDepth, numNodes, numTri, t) ==
    [ret |-> IF t.end # "ok" THEN NULL
             ELSE [nMaps |-> h.nMaps,
                   mapNames |-> h.mapNames,
                   mapTriNums |-> h.mapTriNums,
                   nVertices |-> h.nVertices,
                   vertCoords |-> h.vertCoords,
                   texCoords |-> h.texCoords,
                   minX |-> h.minX, maxX |-> h.maxX,
                   minY |-> h.minY, maxY |-> h.maxY,
                   minZ |-> h.minZ, maxZ |-> h.maxZ,
                   maxDepth |-> maxDepth,
                   numNodes |-> numNodes,
                   numTri |-> numTri,
                   bspTree |-> t.tree],
     pos |-> t.pos - 1, end |-> t.end,
     order |-> t.order, cFlagAt |-> t.cFlagAt]

\* LoadTree with maxDepth and numNodes read in the wrong order
LoadTree_CountersSwapped(s, h) ==
    LoadResult(h, GetU16(s, h.pos + 2), GetU16(s, h.pos),
               GetU32(s, h.pos + 4),
               ReadBSPTree(s, h.vertCoords, <<>>,
                   [tree |-> << >>, pos |-> h.pos + 8, end |-> "ok",
                    order |-> <<>>, cFlagAt |-> <<>>]))

\* LoadBSPTreeData once the header h has been read from the stream s: the
\* counters and the tree are read (bspc.c:1846-1871)
LoadTree(s, h) ==
    LoadResult(h, GetU16(s, h.pos), GetU16(s, h.pos + 2),
               GetU32(s, h.pos + 4),
               ReadBSPTree(s, h.vertCoords, <<>>,
                   [tree |-> << >>, pos |-> h.pos + 8, end |-> "ok",
                    order |-> <<>>, cFlagAt |-> <<>>]))

\* LoadBSPTreeData once savedSig and the version have been read as sig
LoadSigned(s, sig) ==
    IF StrEqual(BSP_FILE_MAGIC, sig.savedSig, 1) /\ sig.ver = BSP_DATA_VER
    THEN LoadTree(s, GetHeader(s, 6))
    ELSE [ret |-> NULL, pos |-> sig.pos, end |-> "ok",
          order |-> <<>>, cFlagAt |-> <<>>]

\* LoadBSPTreeData: ret is the BSPTreeData or NULL, pos the number of bytes
\* read, end "ok" or "exit"; order and cFlagAt are the bookkeeping of
\* ReadBSPTree
LoadBSPTreeData(inFile, heap) ==
    IF inFile = NULL
    THEN [ret |-> NULL, pos |-> 0, end |-> "ok",
          order |-> <<>>, cFlagAt |-> <<>>]
    ELSE LoadSigned(inFile.bytes, SigRead(inFile.bytes, heap))

(***************************************************************************)
(* The mesh data (gld.c)                                                   *)
(***************************************************************************)
\* The comparison of GenGLData (gld.c:194-203) of entry k (from 0) of the
\* vertex table with the vertex V and its texture mapping T
GLDVertMatch(g, k, V, T) ==
    /\ Abs(g.vertCoords[k + 1][1] - V[1]) <= GLD_VERT_ORD_EPSILON
    /\ Abs(g.vertCoords[k + 1][2] - V[2]) <= GLD_VERT_ORD_EPSILON
    /\ Abs(g.vertCoords[k + 1][3] - V[3]) <= GLD_VERT_ORD_EPSILON
    /\ Abs(g.texCoords[k + 1][1] - T[1]) <= GLD_TEX_ORD_EPSILON
    /\ Abs(g.texCoords[k + 1][2] - T[2]) <= GLD_TEX_ORD_EPSILON

\* The for loop over k of GenGLData (gld.c:192-211): the first entry that
\* matches, or nVertices
GLDFindVert(g, V, T) ==
    LET hits == {k \in 0..(g.nVertices - 1) : GLDVertMatch(g, k, V, T)}
    IN  IF hits = {} THEN g.nVertices
        ELSE CHOOSE k \in hits : \A o \in hits : k <= o

\* The vertex j of a triangle looked up in the table (gld.c:178-250): the
\* index given to it and the mesh after the lookup; the bounds are in half
\* steps
GLDVertex(g, V, T) ==
    LET k == GLDFindVert(g, V, T)
    IN  IF k < g.nVertices THEN [vInd |-> k % 65536, g |-> g]
        ELSE [vInd |-> k % 65536,
              g |-> [g EXCEPT
                 !.vertCoords = Append(@, V),
                 !.texCoords = Append(@, T),
                 !.nVertices = (@ + 1) % 65536,
                 !.minX = IF 2 * V[1] < @ THEN 2 * V[1] ELSE @,
                 !.maxX = IF 2 * V[1] > @ THEN 2 * V[1] ELSE @,
                 !.minY = IF 2 * V[2] < @ THEN 2 * V[2] ELSE @,
                 !.maxY = IF 2 * V[2] > @ THEN 2 * V[2] ELSE @,
                 !.minZ = IF 2 * V[3] < @ THEN 2 * V[3] ELSE @,
                 !.maxZ = IF 2 * V[3] > @ THEN 2 * V[3] ELSE @]]

\* The indices vInd stored as the triangle idx of a texture's array
\* (gld.c:268-270)
StoreFace(faces, idx, vInd) ==
    [k \in 1..(IF 3 * idx + 3 > Len(faces) THEN 3 * idx + 3 ELSE Len(faces))
       |-> IF k > 3 * idx /\ k <= 3 * idx + 3 THEN vInd[k - 3 * idx]
           ELSE faces[k]]

\* GLDTriangle without the check of the three indices
GLDTriangle_KeepsAll(g, tri) ==
    LET r0 == GLDVertex(g, tri.V[1], tri.T[1])
        r1 == GLDVertex(r0.g, tri.V[2], tri.T[2])
        r2 == GLDVertex(r1.g, tri.V[3], tri.T[3])
        idx == r2.g.mapTriNums[tri.tIndex + 1] % 65536
    IN  [r2.g EXCEPT
           !.triFaces[tri.tIndex + 1] =
               StoreFace(@, idx, <<r0.vInd, r1.vInd, r2.vInd>>),
           !.mapTriNums[tri.tIndex + 1] = @ + 1,
           !.numTri = @ + 1]

\* The body of the for loop over the triangles of GenGLData
\* (gld.c:172-279) for the triangle tri
GLDTriangle(g, tri) ==
    LET r0 == GLDVertex(g, tri.V[1], tri.T[1])
        r1 == GLDVertex(r0.g, tri.V[2], tri.T[2])
        r2 == GLDVertex(r1.g, tri.V[3], tri.T[3])
        vInd == <<r0.vInd, r1.vInd, r2.vInd>>
        tIndex == tri.tIndex
    IN  IF vInd[1] = vInd[2] \/ vInd[2] = vInd[3] \/ vInd[3] = vInd[1]
        THEN [r2.g EXCEPT !.skippedTris = TRUE]
        ELSE LET idx == r2.g.mapTriNums[tIndex + 1] % 65536
             IN  [r2.g EXCEPT
                    !.triFaces[tIndex + 1] = StoreFace(@, idx, vInd),
                    !.mapTriNums[tIndex + 1] = @ + 1,
                    !.numTri = @ + 1]

\* The for loop over the triangles i..nTri
RECURSIVE GLDTriangles(_, _, _)
GLDTriangles(g, inTris, i) ==
    IF i > Len(inTris) THEN g
    ELSE GLDTriangles(GLDTriangle(g, inTris[i]), inTris, i + 1)

\* The GLData GenGLData has made when the for loop over the triangles
\* starts (gld.c:47-166).  As bookkeeping of the model the GLData carries
\* skippedTris and freed, the textures whose index array was freed while
\* triFaces kept pointing to it (gld.c:328-337)
GLDStart(nMaps, texMapNames) ==
    [nMaps |-> nMaps,
     mapNames |-> texMapNames,
     mapTriNums |-> [i \in 1..nMaps |-> 0],
     nVertices |-> 0,
     vertCoords |-> <<>>, texCoords |-> <<>>,
     minX |-> FLT_MAX, maxX |-> FLT_MIN,
     minY |-> FLT_MAX, maxY |-> FLT_MIN,
     minZ |-> FLT_MAX, maxZ |-> FLT_MIN,
     numTri |-> 0,
     triFaces |-> [i \in 1..nMaps |-> <<>>],
     skippedTris |-> FALSE,
     freed |-> {}]

\* GenGLData: the GLData returned, or NULL
GenGLData(inTris, nMaps, texMapNames) ==
    IF Len(inTris) = 0 \/ nMaps = 0 THEN NULL
    ELSE IF \E i \in 1..Len(inTris) : inTris[i].tIndex >= nMaps THEN NULL
    ELSE
      LET g == GLDTriangles(GLDStart(nMaps, texMapNames), inTris, 1)
      IN  [g EXCEPT !.freed = IF g.nVertices > 0 /\ g.skippedTris
                              THEN {i \in 1..nMaps : g.mapTriNums[i] = 0}
                              ELSE {}]

\* An array handed over by a pointer that is not NULL
Array(at) == [null |-> FALSE, at |-> at]

\* GenGLDataArgs passing on without a look at texMapNames
GenGLDataArgs_NamesUnchecked(nTri, triVerts, texIndices, triTexCoords, nMaps, texMapNames) ==
    IF nTri = 0 \/ triVerts = NULL \/ texIndices = NULL
          \/ triTexCoords = NULL \/ nMaps = 0
    THEN NULL
    ELSE GenGLData([i \in 1..nTri |->
                       [V |-> triVerts.at[i], tIndex |-> texIndices.at[i],
                        T |-> triTexCoords.at[i]]],
                   nMaps,
                   IF texMapNames = NULL THEN <<>> ELSE texMapNames.at)

\* GenGLData on its six parameters, each pointer NULL or an Array: the
\* sanity check (gld.c:34-44), then GenGLData on the triangles the three
\* arrays hold
GenGLDataArgs(nTri, triVerts, texIndices, triTexCoords, nMaps, texMapNames) ==
    IF nTri = 0 \/ triVerts = NULL \/ texIndices = NULL
          \/ triTexCoords = NULL \/ nMaps = 0 \/ texMapNames = NULL
    THEN NULL
    ELSE GenGLData([i \in 1..nTri |->
                       [V |-> triVerts.at[i], tIndex |-> texIndices.at[i],
                        T |-> triTexCoords.at[i]]],
                   nMaps, texMapNames.at)

\* The first n indices of an index array as fwrite writes them
PutFaces(faces, n) == Concat([k \in 1..n |-> PutU16(faces[k])])

\* SaveGLData: the bytes written to outFile
SaveGLData(glData) ==
    IF glData = NULL THEN <<>>
    ELSE GLD_FILE_MAGIC
         \o PutU8(GLD_VER)
         \o PutU16(glData.nMaps)
         \o Concat([i \in 1..glData.nMaps |-> glData.mapNames[i] \o <<0>>])
         \o Concat([i \in 1..glData.nMaps |-> PutU32(glData.mapTriNums[i])])
         \o PutU16(glData.nVertices)
         \o Concat([i \in 1..glData.nVertices |->
                      PutF32(glData.vertCoords[i][1])
                      \o PutF32(glData.vertCoords[i][2])
                      \o PutF32(glData.vertCoords[i][3])])
         \o Concat([i \in 1..glData.nVertices |->
                      PutF32(glData.texCoords[i][1])
                      \o PutF32(glData.texCoords[i][2])])
         \o PutF32(glData.minX) \o PutF32(glData.maxX)
         \o PutF32(glData.minY) \o PutF32(glData.maxY)
         \o PutF32(glData.minZ) \o PutF32(glData.maxZ)
         \o PutU32(glData.numTri)
         \o Concat([i \in 1..glData.nMaps |->
                      PutFaces(glData.triFaces[i], 3 * glData.mapTriNums[i])])

\* GetFaces reading elements of one byte
GetFaces_Bytes(s, pos, n) == [k \in 1..n |-> GetU8(s, pos + (k - 1))]

\* The n indices fread reads from place pos on
GetFaces(s, pos, n) == [k \in 1..n |-> GetU16(s, pos + 2 * (k - 1))]

\* The for loop of LoadGLData that reads the index arrays of the textures
\* i..nMaps from place pos on (gld.c:625-644)
RECURSIVE ReadFaces(_, _, _, _, _)
ReadFaces(s, pos, i, mapTriNums, triFaces) ==
    IF i > Len(mapTriNums) THEN [triFaces |-> triFaces, pos |-> pos]
    ELSE ReadFaces(s, pos + 6 * mapTriNums[i], i + 1, mapTriNums,
                   Append(triFaces, GetFaces(s, pos, 3 * mapTriNums[i])))

\* LoadGLData: ret is the GLData or NULL, pos the number of bytes read
LoadGLData(inFile, heap) ==
    IF inFile = NULL THEN [ret |-> NULL, pos |-> 0, end |-> "ok"]
    ELSE
      LET s == inFile.bytes
          sig == SigRead(s, heap)
      IN  IF StrEqual(GLD_FILE_MAGIC, sig.savedSig, 1) /\ sig.ver = GLD_VER
          THEN
            LET nMaps == GetU16(s, 6)
                nm == ReadNames(s, 8, 1, nMaps, <<>>)
                mapTriNums == [i \in 1..nMaps |->
                                 GetU32(s, nm.pos + 4 * (i - 1))]
                pVert == nm.pos + 4 * nMaps
                nVertices == GetU16(s, pVert)
                pV == pVert + 2
                pT == pV + 12 * nVertices
                pB == pT + 8 * nVertices
                f == ReadFaces(s, pB + 28, 1, mapTriNums, <<>>)
            IN  [ret |-> [nMaps |-> nMaps,
                          mapNames |-> nm.names,
                          mapTriNums |-> mapTriNums,
                          nVertices |-> nVertices,
                          vertCoords |-> [i \in 1..nVertices |->
                                <<GetF32(s, pV + 12 * (i - 1)),
                                  GetF32(s, pV + 12 * (i - 1) + 4),
                                  GetF32(s, pV + 12 * (i - 1) + 8)>>],
                          texCoords |-> [i \in 1..nVertices |->
                                <<GetF32(s, pT + 8 * (i - 1)),
                                  GetF32(s, pT + 8 * (i - 1) + 4)>>],
                          minX |-> GetF32(s, pB), maxX |-> GetF32(s, pB + 4),
                          minY |-> GetF32(s, pB + 8),
                          maxY |-> GetF32(s, pB + 12),
                          minZ |-> GetF32(s, pB + 16),
                          maxZ |-> GetF32(s, pB + 20),
                          numTri |-> GetU32(s, pB + 24),
                          triFaces |-> f.triFaces,
                          skippedTris |-> FALSE,
                          freed |-> {}],
                 pos |-> f.pos - 1, end |-> "ok"]
          ELSE [ret |-> NULL, pos |-> sig.pos, end |-> "ok"]

\* The blocks of memory a GLData owns: the record, the table of names and
\* each name, mapTriNums, the two vertex tables, the table of index arrays
\* and the index array of each texture
GLBlocks(glData) ==
    {<<"glData">>, <<"mapNames">>, <<"mapTriNums">>, <<"vertCoords">>,
     <<"texCoords">>, <<"triFaces">>}
        \cup {<<"mapNames", i>> : i \in 1..glData.nMaps}
        \cup {<<"triFaces", i>> : i \in 1..glData.nMaps}

\* How often each block of a GLData has been freed when its maker hands it
\* over: GenGLData has freed the index arrays of the textures left without
\* a triangle (gld.c:328-337), LoadGLData has freed nothing
MakerFrees(glData) ==
    [b \in GLBlocks(glData) |->
        IF \E i \in glData.freed : b = <<"triFaces", i>> THEN 1 ELSE 0]

\* The blocks FreeGLData hands to free( ), each once (gld.c:669-696)
FreeGLDataBlocks(glData) ==
    {<<"mapNames", i>> : i \in 1..glData.nMaps}
        \cup {<<"triFaces", i>> : i \in 1..glData.nMaps}
        \cup {<<"mapNames">>, <<"mapTriNums">>, <<"vertCoords">>,
              <<"texCoords">>, <<"triFaces">>, <<"glData">>}

\* FreeGLData: how often each block has been freed after the call, frees
\* being the count before it
FreeGLData(glData, frees) ==
    IF glData = NULL THEN frees
    ELSE [b \in DOMAIN frees |->
             IF b \in FreeGLDataBlocks(glData) THEN frees[b] + 1
             ELSE frees[b]]

(***************************************************************************)
(* Collision detection (coldet.c)                                          *)
(*                                                                         *)
(* The ordinates are whole steps; a value that is not a whole number of    *)
(* steps (a distance along a ray) is kept as a fraction in lowest terms.   *)
(***************************************************************************)
\* <float.h>: FLT_EPSILON = 1.1920929e-7 against a determinant counted in
\* square steps (2.5e-7 each), in 1/10000 of a square step
FLT_EPSILON == 4768

\* The macros CROSS, DOT and SUB
CROSS(v1, v2) ==
    <<v1[2] * v2[3] - v1[3] * v2[2],
      v1[3] * v2[1] - v1[1] * v2[3],
      v1[1] * v2[2] - v1[2] * v2[1]>>

DOT(v1, v2) == v1[1] * v2[1] + v1[2] * v2[2] + v1[3] * v2[3]

SUB(v1, v2) == <<v1[1] - v2[1], v1[2] - v2[2], v1[3] - v2[3]>>

RECURSIVE GCD(_, _)
GCD(a, b) == IF b = 0 THEN a ELSE GCD(b, a % b)

\* The value n / d (d not 0) in lowest terms with a positive denominator
Frac(n, d) ==
    LET g == GCD(Abs(n), Abs(d))
        s == IF d < 0 THEN -1 ELSE 1
    IN  [n |-> (s * n) \div g, d |-> (s * d) \div g]

FracLess(a, b) == a.n * b.d < b.n * a.d

\* FLT_MAX as the value of *dist: above every distance
DIST_MAX == [n |-> FLT_MAX, d |-> 1]

\* sqrt( ) of a square of a whole number
Sqrt(x) == CHOOSE m \in 0..x : m * m = x

\* intersectsFace.  dir is the normalised direction: the vector dir.num
\* divided by dir.den > 0.  With pVec, det and *v carrying the division by
\* dir.den, det = detNum / dir.den, *u = uNum / detNum, *v = vNum / detNum
\* and *t = tNum * dir.den / detNum.  A return of GL_FALSE leaves *t, *u
\* and *v as they were, which the caller never reads.
intersectsFace(orig, dir, vert0, vert1, vert2) ==
    LET edge1 == SUB(vert1, vert0)
        edge2 == SUB(vert2, vert0)
        pNum == CROSS(dir.num, edge2)
        detNum == DOT(edge1, pNum)
        tVec == SUB(orig, vert0)
        uNum == DOT(tVec, pNum)
        qVec == CROSS(tVec, edge1)
        vNum == DOT(dir.num, qVec)
        tNum == DOT(edge2, qVec)
        sgn == IF detNum < 0 THEN -1 ELSE 1
    IN  IF 10000 * Abs(detNum) < FLT_EPSILON * dir.den
        THEN [ret |-> FALSE]
        ELSE IF sgn * uNum < 0 \/ sgn * uNum > sgn * detNum
        THEN [ret |-> FALSE]
        ELSE IF sgn * vNum < 0 \/ sgn * (uNum + vNum) > sgn * detNum
        THEN [ret |-> FALSE]
        ELSE [ret |-> TRUE,
              t |-> Frac(tNum * dir.den, detNum),
              u |-> Frac(uNum, detNum),
              v |-> Frac(vNum, detNum)]

\* The triangles of a mesh in the order of the two for loops of
\* hasCollision: <<i, j>> for the triangle j of the texture map i
RECURSIVE FaceOrder(_, _)
FaceOrder(model, i) ==
    IF i > model.nMaps THEN <<>>
    ELSE [j \in 1..model.mapTriNums[i] |-> <<i, j - 1>>]
         \o FaceOrder(model, i + 1)

\* The vertex k of the triangle j of the texture map i (coldet.c:105-119)
FaceVert(model, i, j, k) ==
    model.vertCoords[model.triFaces[i][3 * j + k + 1] + 1]

\* HitStep taking every hit on the segment, the nearer ones before it too
HitStep_LastHit(model, fromPt, dir, dirMag, at, acc) ==
    LET hit == intersectsFace(fromPt, dir,
                              FaceVert(model, at[1], at[2], 0),
                              FaceVert(model, at[1], at[2], 1),
                              FaceVert(model, at[1], at[2], 2))
        tested == [acc EXCEPT !.tested = @ + 1]
    IN  IF hit.ret /\ hit.t.n >= 0
           /\ ~FracLess([n |-> dirMag, d |-> 1], hit.t)
        THEN [tested EXCEPT !.dist = hit.t, !.retVal = TRUE]
        ELSE tested

\* The body of the two for loops for the triangle at: acc carries *dist,
\* retVal and, as bookkeeping, the number of calls of intersectsFace
HitStep(model, fromPt, dir, dirMag, at, acc) ==
    LET hit == intersectsFace(fromPt, dir,
                              FaceVert(model, at[1], at[2], 0),
                              FaceVert(model, at[1], at[2], 1),
                              FaceVert(model, at[1], at[2], 2))
        tested == [acc EXCEPT !.tested = @ + 1]
    IN  IF hit.ret /\ hit.t.n >= 0 /\ FracLess(hit.t, acc.dist)
           /\ ~FracLess([n |-> dirMag, d |-> 1], hit.t)
        THEN [tested EXCEPT !.dist = hit.t, !.retVal = TRUE]
        ELSE tested

RECURSIVE HitLoop(_, _, _, _, _, _, _)
HitLoop(model, fromPt, dir, dirMag, order, k, acc) ==
    IF k > Len(order) THEN acc
    ELSE HitLoop(model, fromPt, dir, dirMag, order, k + 1,
                 HitStep(model, fromPt, dir, dirMag, order[k], acc))

\* hasCollision with a miss for a segment of no length
hasCollision_ZeroMisses(model, fromPt, toPt) ==
    LET dir == SUB(toPt, fromPt)
        dirMag == Sqrt(DOT(dir, dir))
        acc == [retVal |-> FALSE, dist |-> DIST_MAX, tested |-> 0]
    IN  IF dirMag > 0
        THEN HitLoop(model, fromPt, [num |-> dir, den |-> dirMag], dirMag,
                     FaceOrder(model, 1), 1, acc)
        ELSE acc

\* hasCollision: the value returned, *dist and the number of calls of
\* intersectsFace
hasCollision(model, fromPt, toPt) ==
    LET dir == SUB(toPt, fromPt)
        dirMag == Sqrt(DOT(dir, dir))
        acc == [retVal |-> FALSE, dist |-> DIST_MAX, tested |-> 0]
    IN  IF dirMag > 0
        THEN HitLoop(model, fromPt, [num |-> dir, den |-> dirMag], dirMag,
                     FaceOrder(model, 1), 1, acc)
        ELSE [acc EXCEPT !.retVal = TRUE]

(***************************************************************************)
(* Inputs                                                                  *)
(***************************************************************************)
\* The longest triangle soup handed to the generators
MaxTri == 3

\* An input triangle: the nine ordinates of triVerts, the entry of
\* texIndices and the six ordinates of triTexCoords
InTri(V, tIndex, T) == [V |-> V, tIndex |-> tIndex, T |-> T]

UniformT == <<<<0, 0>>, <<0, 0>>, <<0, 0>>>>

\* The triangles the soups are made of
TriCatalogue ==
    << \* 1: in the plane z = 0, anticlockwise seen from +z
       InTri(<<<<0, 0, 0>>, <<8, 0, 0>>, <<0, 8, 0>>>>, 0,
             <<<<0, 0>>, <<8, 0>>, <<0, 8>>>>),
       \* 2: in the plane z = 0, with the other winding
       InTri(<<<<0, 0, 0>>, <<0, 8, 0>>, <<8, 0, 0>>>>, 0,
             <<<<0, 0>>, <<0, 8>>, <<8, 0>>>>),
       \* 3: in the plane z = 1, one step above z = 0
       InTri(<<<<3, 3, 1>>, <<8, 3, 1>>, <<3, 8, 1>>>>, 1, UniformT),
       \* 4: in the plane z = -1, one step below z = 0
       InTri(<<<<-3, -3, -1>>, <<-8, -3, -1>>, <<-3, -8, -1>>>>, 0, UniformT),
       \* 5: upright in the plane y = 0, above z = 0
       InTri(<<<<0, 0, 4>>, <<8, 0, 4>>, <<0, 0, 8>>>>, 1,
             <<<<4, 4>>, <<8, 4>>, <<4, 8>>>>),
       \* 6: spanning z = 0 with one vertex below, one above and one on it
       InTri(<<<<0, 0, -4>>, <<8, 0, 4>>, <<0, 8, 0>>>>, 0, UniformT),
       \* 7: three collinear vertices
       InTri(<<<<0, 0, 0>>, <<4, 0, 0>>, <<8, 0, 0>>>>, 0, UniformT),
       \* 8: a sliver whose first two vertices are two steps apart
       InTri(<<<<-8, 0, -4>>, <<-8, 2, -4>>, <<-8, 0, -8>>>>, 1, UniformT)
    >>

RECURSIVE SeqsUpTo(_, _)
SeqsUpTo(S, n) ==
    IF n = 0 THEN {<<>>}
    ELSE LET shorter == SeqsUpTo(S, n - 1)
         IN  shorter \cup {Append(q, x) : q \in shorter, x \in S}

\* The soups: every sequence of at most MaxTri triangles of the catalogue
Soups ==
    {[i \in 1..Len(q) |-> TriCatalogue[q[i]]] :
        q \in SeqsUpTo(1..Len(TriCatalogue), MaxTri)}

\* The texture map names handed to the generators: "a" and "bc"
TexMapNames == <<<<97>>, <<98, 99>>>>

(***************************************************************************)
(* The state                                                               *)
(***************************************************************************)
VARIABLES
    inTris,     \* the input triangles
    proc,       \* the process that compiles and loads BSP trees: "running",
                \* "exited" (exit( EXIT_FAILURE)) or "crashed"
    bspData,    \* the BSPTreeData returned by GenBSPTreeData, or NULL
    bspAux,     \* bookkeeping of the compilation: intNodes, srcOrd, statics
    bspFile,    \* the FILE SaveBSPTreeData wrote, or NULL
    glData,     \* the GLData returned by GenGLData, or NULL
    glCalled,   \* GenGLData has been called
    gldFile,    \* the FILE SaveGLData wrote, or NULL
    lastLoad,   \* the last call of a loader: the stream it was given and
                \* what it returned, or NULL
    glFree,     \* the call of FreeGLData: the mesh it was given and how often
                \* each block of the mesh has been freed, or NULL
    unit        \* a call of one function of the compiler or of the collision
                \* detector on its own: the function, its arguments and what
                \* it returned (out, NULL before the call), or NULL

vars == <<inTris, proc, bspData, bspAux, bspFile, glData, glCalled, gldFile,
          lastLoad, glFree, unit>>

\* What an uninitialised block of four chars may hold
Heaps == {<<0, 0, 0, 0>>, BSP_FILE_MAGIC, GLD_FILE_MAGIC}

\* The blocks that make a difference to a loader of inFile: fread fills the
\* block when the stream has four bytes
HeapsFor(inFile) ==
    IF inFile # NULL /\ Len(inFile.bytes) < 4 THEN Heaps
    ELSE {<<0, 0, 0, 0>>}

\* cFlag values outside the format
BadFlags == {1, 240, 255}

\* The streams that end before the version byte, cut from the front of f
ShortStreams(f) ==
    IF f = NULL THEN {}
    ELSE {File(SubSeq(f.bytes, 1, k)) : k \in 0..4}

\* f with one of the bytes of its magic or its version changed
BadSignatures(f) ==
    IF f = NULL THEN {}
    ELSE {[f EXCEPT !.bytes[i] = (@ + d) % 256] : i \in 1..5, d \in {1, 255}}

\* f, a stream written by SaveBSPTreeData, with the cFlag of one of its
\* node records (at the places at) changed to a value outside the format
FlagsChanged(f, at) ==
    {[f EXCEPT !.bytes[at[i]] = c] : i \in 1..Len(at), c \in BadFlags}

BadFlagStreams(f) ==
    IF f = NULL THEN {}
    ELSE FlagsChanged(f, LoadBSPTreeData(f, <<0, 0, 0, 0>>).cFlagAt)

\* The streams handed to LoadBSPTreeData
BSPStreams ==
    {NULL, bspFile, gldFile} \cup ShortStreams(bspFile)
        \cup BadSignatures(bspFile) \cup BadFlagStreams(bspFile)

\* The streams handed to LoadGLData
GLDStreams ==
    {NULL, gldFile, bspFile} \cup ShortStreams(gldFile)
        \cup BadSignatures(gldFile)

\* The compiler of BSP trees and the generator of meshes have written
\* their files, or have ended without one
FilesWritten ==
    /\ bspFile # NULL \/ proc # "running"
    /\ gldFile # NULL \/ (glCalled /\ glData = NULL)

Init ==
    /\ inTris \in Soups
    /\ proc = "running"
    /\ bspData = NULL
    /\ bspAux = NULL
    /\ bspFile = NULL
    /\ glData = NULL
    /\ glCalled = FALSE
    /\ gldFile = NULL
    /\ lastLoad = NULL
    /\ glFree = NULL
    /\ unit = NULL

\* The state after GenBSPTreeData has ended with r
Compiled(r) ==
    /\ bspData' = r.ret
    /\ bspAux' = [intNodes |-> r.intNodes, srcOrd |-> r.srcOrd,
                  nullDefs |-> r.nullDefs, statics |-> r.statics]
    /\ proc' = CASE r.end = "ok" -> "running"
                 [] r.end = "exit" -> "exited"
                 [] OTHER -> "crashed"

\* A call of GenBSPTreeData on the input triangles
GenBSPTreeDataCall ==
    /\ proc = "running"
    /\ bspData = NULL
    /\ Compiled(GenBSPTreeData(inTris, Len(TexMapNames), TexMapNames))
    /\ UNCHANGED <<inTris, bspFile, glData, glCalled, gldFile, lastLoad,
                   glFree, unit>>

\* A call of SaveBSPTreeData on the compiled tree
SaveBSPTreeDataCall ==
    /\ proc = "running"
    /\ bspData # NULL
    /\ bspFile = NULL
    /\ bspFile' = File(SaveBSPTreeData(bspData))
    /\ UNCHANGED <<inTris, proc, bspData, bspAux, glData, glCalled, gldFile,
                   lastLoad, glFree, unit>>

\* The state after LoadBSPTreeData, called on inFile, has ended with r
LoadedBSP(inFile, r) ==
    /\ lastLoad' = [fn |-> "LoadBSPTreeData", inFile |-> inFile,
                    ret |-> r.ret, pos |-> r.pos, end |-> r.end,
                    order |-> r.order]
    /\ proc' = IF r.end = "ok" THEN "running" ELSE "exited"

\* The state after LoadGLData, called on inFile, has returned r
LoadedGLD(inFile, r) ==
    lastLoad' = [fn |-> "LoadGLData", inFile |-> inFile,
                 ret |-> r.ret, pos |-> r.pos, end |-> r.end,
                 order |-> <<>>]

\* A call of LoadBSPTreeData on a stream
LoadBSPTreeDataCall ==
    /\ proc = "running"
    /\ bspFile # NULL
    /\ FilesWritten
    /\ lastLoad = NULL
    /\ \E inFile \in BSPStreams : \E heap \in HeapsFor(inFile) :
          LoadedBSP(inFile, LoadBSPTreeData(inFile, heap))
    /\ UNCHANGED <<inTris, bspData, bspAux, bspFile, glData, glCalled,
                   gldFile, glFree, unit>>

\* A call of GenGLData on the input triangles, in a process of its own
GenGLDataCall ==
    /\ ~glCalled
    /\ glCalled' = TRUE
    /\ glData' = GenGLData(inTris, Len(TexMapNames), TexMapNames)
    /\ UNCHANGED <<inTris, proc, bspData, bspAux, bspFile, gldFile, lastLoad,
                   glFree, unit>>

\* A call of SaveGLData on the mesh
SaveGLDataCall ==
    /\ glData # NULL
    /\ gldFile = NULL
    /\ gldFile' = File(SaveGLData(glData))
    /\ UNCHANGED <<inTris, proc, bspData, bspAux, bspFile, glData, glCalled,
                   lastLoad, glFree, unit>>

\* A call of LoadGLData on a stream
LoadGLDataCall ==
    /\ gldFile # NULL
    /\ FilesWritten
    /\ lastLoad = NULL
    /\ \E inFile \in GLDStreams : \E heap \in HeapsFor(inFile) :
          LoadedGLD(inFile, LoadGLData(inFile, heap))
    /\ UNCHANGED <<inTris, proc, bspData, bspAux, bspFile, glData, glCalled,
                   gldFile, glFree, unit>>

\* A call of FreeGLData, on the mesh GenGLData returned once it has been
\* saved (obj2gld.c:278) or on the mesh LoadGLData returned (obj2gld.c:301).
\* glData and lastLoad keep the value the mesh had
FreeGLDataCall ==
    /\ glFree = NULL
    /\ \/ /\ glData # NULL
          /\ gldFile # NULL
          /\ glFree' = [mesh |-> "GenGLData",
                        frees |-> FreeGLData(glData, MakerFrees(glData))]
       \/ /\ lastLoad # NULL
          /\ lastLoad.fn = "LoadGLData"
          /\ lastLoad.ret # NULL
          /\ glFree' = [mesh |-> "LoadGLData",
                        frees |-> FreeGLData(lastLoad.ret,
                                             MakerFrees(lastLoad.ret))]
    /\ UNCHANGED <<inTris, proc, bspData, bspAux, bspFile, glData, glCalled,
                   gldFile, lastLoad, unit>>

Next ==
    \/ GenBSPTreeDataCall
    \/ SaveBSPTreeDataCall
    \/ LoadBSPTreeDataCall
    \/ GenGLDataCall
    \/ SaveGLDataCall
    \/ LoadGLDataCall
    \/ FreeGLDataCall

Spec == Init /\ [][Next]_vars

(***************************************************************************)
(* Calls of single functions                                               *)
(*                                                                         *)
(* The functions of the compiler are also called one at a time, on         *)
(* arguments drawn from small sets, with no soup compiled.                 *)
(***************************************************************************)
\* The z ordinates of the triangles handed to the classifier and to the
\* splitter: beyond the thickness of a plane, at it and inside it
KernelOrds == {-4, -1, 0, 1, 4}

\* The working triangle over (0,0), (8,0), (0,8) with the given z ordinates
KernelTri(z0, z1, z2) ==
    BSPTriNode(<<<<0, 0, z0>>, <<8, 0, z1>>, <<0, 8, z2>>>>,
               GetPlaneForTri(<<<<0, 0, z0>>, <<8, 0, z1>>, <<0, 8, z2>>>>).plane,
               0, <<<<0, 0>>, <<8, 0>>, <<0, 8>>>>)

KernelTris == {KernelTri(z0, z1, z2) : z0, z1, z2 \in KernelOrds}

\* The partition planes: z = 0 with its normal along +z and along -z, and
\* the plane 3y + 4z = 0
KernelPlanes ==
    {GetPlaneForTri(<<<<0, 0, 0>>, <<8, 0, 0>>, <<0, 8, 0>>>>).plane,
     GetPlaneForTri(<<<<0, 0, 0>>, <<0, 8, 0>>, <<8, 0, 0>>>>).plane,
     GetPlaneForTri(<<<<0, 0, 0>>, <<8, 0, 0>>, <<0, 4, -3>>>>).plane}

\* The lists handed to SelectNextRoot: what the input loop of
\* GenBSPTreeData makes of the soups
KernelLists == {InputList(soup, 1, <<>>) : soup \in Soups}

\* The soups handed to GenGLData on its own: at most MaxTri - 1 triangles
GLDSoups == {soup \in Soups : Len(soup) < MaxTri}

\* The numbers of texture maps handed to GenGLData on its own
GLDMapCounts == 0..Len(TexMapNames)

\* The arrays of a call, one of them at most handed over as NULL (which
\* names the one: "none", "triVerts", "texIndices", "triTexCoords" or
\* "texMapNames")
GLDArgs(soup, nMaps, which) ==
    [fn |-> "GenGLData",
     nTri |-> Len(soup),
     triVerts |-> IF which = "triVerts" THEN NULL
                  ELSE Array([i \in 1..Len(soup) |-> soup[i].V]),
     texIndices |-> IF which = "texIndices" THEN NULL
                    ELSE Array([i \in 1..Len(soup) |-> soup[i].tIndex]),
     triTexCoords |-> IF which = "triTexCoords" THEN NULL
                      ELSE Array([i \in 1..Len(soup) |-> soup[i].T]),
     nMaps |-> nMaps,
     texMapNames |-> IF which = "texMapNames" THEN NULL
                     ELSE Array(SubSeq(TexMapNames, 1, nMaps)),
     out |-> NULL]

GLDCalls ==
    {GLDArgs(soup, nMaps, which) :
        soup \in GLDSoups, nMaps \in GLDMapCounts,
        which \in {"none", "triVerts", "texIndices", "triTexCoords",
                   "texMapNames"}}

\* The meshes handed to hasCollision: what GenGLData makes of the soups
\* with both texture maps
Meshes == {GenGLData(soup, Len(TexMapNames), TexMapNames) : soup \in GLDSoups}
              \ {NULL}

\* The segments handed to hasCollision as <<fromPt, toPt>>, each of a whole
\* number of steps: down and up through the triangles over (4,3), short of
\* them, from one of them, up to one of them, slanted through the upright
\* triangle, past them all, and of no length
Segments ==
    {<<<<4, 3, 6>>, <<4, 3, -6>>>>,
     <<<<4, 3, -6>>, <<4, 3, 6>>>>,
     <<<<4, 3, 6>>, <<4, 3, 2>>>>,
     <<<<4, 3, 0>>, <<4, 3, 4>>>>,
     <<<<4, 3, 5>>, <<4, 3, 1>>>>,
     <<<<1, -3, 9>>, <<1, 1, 6>>>>,
     <<<<-9, -9, -9>>, <<-9, -9, -6>>>>,
     <<<<4, 3, 6>>, <<4, 3, 6>>>>,
     <<<<0, 0, 0>>, <<0, 0, 0>>>>}

HitCalls ==
    {[fn |-> "hasCollision", model |-> m, fromPt |-> s[1], toPt |-> s[2],
      out |-> NULL] : m \in Meshes, s \in Segments}

\* The triangles of the soups compiled one after another: triangles of the
\* catalogue and three more
RunCatalogue ==
    <<TriCatalogue[1], TriCatalogue[3], TriCatalogue[5], TriCatalogue[6],
      TriCatalogue[8],
      \* in the plane x = -8 of the sliver, sharing two vertices with it
      InTri(<<<<-8, 0, -4>>, <<-8, 6, -4>>, <<-8, 0, -8>>>>, 0, UniformT),
      \* in the plane z = 0, its second vertex two steps from (4,0,0)
      InTri(<<<<0, 0, 0>>, <<4, 2, 0>>, <<8, 0, 0>>>>, 0, UniformT),
      \* in the plane y = 0, with a vertex at (4,0,0)
      InTri(<<<<4, 0, 0>>, <<8, 0, 0>>, <<4, 0, -8>>>>, 1, UniformT)>>

RunSoups ==
    {[i \in 1..Len(q) |-> RunCatalogue[q[i]]] :
        q \in SeqsUpTo(1..Len(RunCatalogue), MaxTri)}

\* The soups compiled before the one of a call, in the same process: none,
\* one soup with a triangle that is split, and a second one with a
\* triangle that is dropped
EarlierRuns ==
    {<<>>,
     <<<<TriCatalogue[1], TriCatalogue[6], TriCatalogue[5]>>>>,
     <<<<TriCatalogue[1], TriCatalogue[6], TriCatalogue[5]>>,
       <<TriCatalogue[8], TriCatalogue[3]>>>>}

RunCalls ==
    {[fn |-> "GenBSPTreeData", earlier |-> e, inTris |-> soup,
      out |-> NULL] :
        e \in EarlierRuns,
        soup \in {x \in RunSoups : Len(x) > 0}}

\* The lists handed to BuildBSPTree for one step: the lists of the soups
\* that hold a triangle, and the triangle in z = 0 followed by a working
\* triangle
StepLists ==
    (KernelLists \ {<<>>})
    \cup {<<KernelTri(0, 0, 0), t>> : t \in KernelTris}

StepCalls ==
    {[fn |-> "BuildBSPTree", triList |-> l, out |-> NULL] : l \in StepLists}

\* The GLData in the for loop of GenGLData after n >= 1 triangles equal to
\* tri, none of them degenerate, have gone through its body: the first one
\* makes the three table entries, every later one finds them again and
\* stores the same three indices in the next slot (gld.c:172-279)
GLDCopies(tri, n, nMaps) ==
    LET g == GLDTriangle(GLDStart(nMaps, SubSeq(TexMapNames, 1, nMaps)), tri)
        vInd == g.triFaces[tri.tIndex + 1]
    IN  [g EXCEPT
           !.triFaces[tri.tIndex + 1] =
               [k \in 1..(3 * n) |-> vInd[((k - 1) % 3) + 1]],
           !.mapTriNums[tri.tIndex + 1] = n,
           !.numTri = n]

\* The numbers of equal triangles a texture group holds when the body of
\* the loop is entered: around the largest value of 16 bits
GroupSizes == {65535, 65536}

\* The triangles handed to the body of the loop: two of the first texture
\* with the same corners and the other winding, one of the second texture
LoopTris == {TriCatalogue[1], TriCatalogue[2], TriCatalogue[3]}

\* The GLData in the for loop of GenGLData when the triangles of soup have
\* gone through its body, after copies triangles equal to the first one
\* of the catalogue
LoopState(copies, soup) ==
    GLDTriangles(IF copies = 0 THEN GLDStart(Len(TexMapNames), TexMapNames)
                 ELSE GLDCopies(TriCatalogue[1], copies, Len(TexMapNames)),
                 soup, 1)

\* The passes through the body of the loop: after the soups, and after
\* many equal triangles
LoopCalls ==
    {[fn |-> "GLDTriangle", copies |-> 0, soup |-> soup, tri |-> t,
      out |-> NULL] : soup \in GLDSoups, t \in LoopTris}
    \cup {[fn |-> "GLDTriangle", copies |-> n, soup |-> <<>>, tri |-> t,
           out |-> NULL] : n \in GroupSizes, t \in LoopTris}

UnitCalls ==
    {[fn |-> "SplitTri", aTri |-> t, plane |-> p, out |-> NULL] :
        t \in KernelTris, p \in KernelPlanes}
    \cup {[fn |-> "ClassifyTri", aTri |-> t, plane |-> p, out |-> NULL] :
            t \in KernelTris, p \in KernelPlanes}
    \cup {[fn |-> "SelectNextRoot", triList |-> l, out |-> NULL] :
            l \in KernelLists}
    \cup GLDCalls
    \cup HitCalls
    \cup StepCalls
    \cup RunCalls

InitKernel ==
    /\ inTris = <<>>
    /\ proc = "running"
    /\ bspData = NULL
    /\ bspAux = NULL
    /\ bspFile = NULL
    /\ glData = NULL
    /\ glCalled = FALSE
    /\ gldFile = NULL
    /\ lastLoad = NULL
    /\ glFree = NULL
    /\ unit \in UnitCalls

\* The state after the function of unit has returned out
Returned(out) ==
    /\ unit' = [unit EXCEPT !.out = out]
    /\ UNCHANGED <<inTris, proc, bspData, bspAux, bspFile, glData, glCalled,
                   gldFile, lastLoad, glFree>>

\* A call of SplitTri
SplitTriCall ==
    /\ unit.fn = "SplitTri"
    /\ unit.out = NULL
    /\ Returned(SplitTri(unit.aTri, unit.plane))

\* A call of ClassifyTri, and of ClassifyPoint on each of the vertices
ClassifyTriCall ==
    /\ unit.fn = "ClassifyTri"
    /\ unit.out = NULL
    /\ Returned([retVal |-> ClassifyTri(unit.aTri, unit.plane),
                 vType |-> [i \in 1..3 |->
                              ClassifyPoint(unit.aTri.V[i], unit.plane)]])

\* A call of SelectNextRoot
SelectNextRootCall ==
    /\ unit.fn = "SelectNextRoot"
    /\ unit.out = NULL
    /\ Returned(SelectNextRoot(unit.triList))

\* A call of GenGLData on parameters of its own
GenGLDataUnitCall ==
    /\ unit.fn = "GenGLData"
    /\ unit.out = NULL
    /\ Returned([ret |-> GenGLDataArgs(unit.nTri, unit.triVerts,
                                       unit.texIndices, unit.triTexCoords,
                                       unit.nMaps, unit.texMapNames)])

\* A call of hasCollision
hasCollisionCall ==
    /\ unit.fn = "hasCollision"
    /\ unit.out = NULL
    /\ Returned(hasCollision(unit.model, unit.fromPt, unit.toPt))

\* A call of BuildBSPTree up to the end of its while loop
BuildStepCall ==
    /\ unit.fn = "BuildBSPTree"
    /\ unit.out = NULL
    /\ Returned(BuildStep(unit.triList))

\* GenBSPTreeData called on the soups k..Len(soups) one after another in
\* one process, each call starting from the static data the one before
\* left: what the last call returns
RECURSIVE GenBSPTreeDataRuns(_, _, _)

\* The calls that follow the call k, which ended with r
RunsAfter(r, soups, k) ==
    IF k = Len(soups) THEN r
    ELSE GenBSPTreeDataRuns(r.statics, soups, k + 1)

GenBSPTreeDataRuns(statics, soups, k) ==
    RunsAfter(GenBSPTreeDataIn(statics, soups[k], Len(TexMapNames),
                               TexMapNames),
              soups, k)

\* A call of GenBSPTreeData after the calls on the earlier soups
GenBSPTreeDataRunCall ==
    /\ unit.fn = "GenBSPTreeData"
    /\ unit.out = NULL
    /\ Returned(GenBSPTreeDataRuns(StartStatics,
                                   Append(unit.earlier, unit.inTris), 1))

\* The three indices in the triad slot k (from 0) of an index array
Triad(faces, k) == <<faces[3 * k + 1], faces[3 * k + 2], faces[3 * k + 3]>>

\* What one pass through the body of the loop, from the GLData g to the
\* GLData h, has done to the index array of texture t (from 1): the counts
\* of the group before and after, the number of triad slots written so
\* far, the slots that held a triangle and hold other indices now
\* (changed), the slot of the count before and what it holds (NULL if it
\* was never written), and the vertex table after the pass
LoopSeen(g, h, t) ==
    [kept |-> h.numTri # g.numTri,
     before |-> g.mapTriNums[t],
     after |-> h.mapTriNums[t],
     slots |-> Len(h.triFaces[t]) \div 3,
     changed |-> {j \in 0..((Len(g.triFaces[t]) \div 3) - 1) :
                    Triad(h.triFaces[t], j) # Triad(g.triFaces[t], j)},
     triad |-> IF Len(h.triFaces[t]) >= 3 * g.mapTriNums[t] + 3
               THEN Triad(h.triFaces[t], g.mapTriNums[t]) ELSE NULL,
     nVertices |-> h.nVertices,
     vertCoords |-> h.vertCoords,
     texCoords |-> h.texCoords]

\* The pass of the triangle tri through the body of the loop in the
\* GLData g
LoopPass(g, tri) == LoopSeen(g, GLDTriangle(g, tri), tri.tIndex + 1)

\* One pass through the body of the for loop of GenGLData
GLDTriangleCall ==
    /\ unit.fn = "GLDTriangle"
    /\ unit.out = NULL
    /\ Returned(LoopPass(LoopState(unit.copies, unit.soup), unit.tri))

NextKernel ==
    \/ SplitTriCall
    \/ ClassifyTriCall
    \/ SelectNextRootCall
    \/ GenGLDataUnitCall
    \/ hasCollisionCall
    \/ BuildStepCall
    \/ GenBSPTreeDataRunCall

SpecKernel == InitKernel /\ [][NextKernel]_vars

\* The largest number of entries the vertex table is filled to
MaxDefs == 203

\* The number of entries from which on the lookups are varied: two short
\* of a full block
TailFrom == DEFS_BLK_SIZE - 2

\* The lookups handed to GetVertDefIndex when the table holds n entries,
\* as <<v, t>>.  Up to TailFrom entries: a vertex 5 steps behind the last
\* one, which makes entry n, and a vertex one step from entry 0.  From
\* then on also a vertex 3 steps from the place of entry n - 1, vertices
\* within the tolerance of one or of two entries, and the vertex of entry
\* 0 with another texture mapping
Lookups(n) ==
    {<<<<5 * n, 0, 0>>, <<0, 0>>>>, <<<<1, 0, 0>>, <<0, 0>>>>}
    \cup (IF n < TailFrom THEN {}
          ELSE {<<<<5 * n - 2, 0, 0>>, <<0, 0>>>>,
                <<<<5 * n - 6, 0, 0>>, <<0, 0>>>>,
                <<<<5 * n - 9, 0, 0>>, <<0, 0>>>>,
                <<<<0, 0, 0>>, <<4, 0>>>>})

\* The statics of the vertex table before the first lookup of a
\* conversion
TableStart == ConvStart(StartStatics, Len(TexMapNames))

\* The lookups in the vertex table, one after the other: g holds the
\* statics before the last lookup, out what the lookup returned and the
\* statics after it
InitTable ==
    /\ inTris = <<>>
    /\ proc = "running"
    /\ bspData = NULL
    /\ bspAux = NULL
    /\ bspFile = NULL
    /\ glData = NULL
    /\ glCalled = FALSE
    /\ gldFile = NULL
    /\ lastLoad = NULL
    /\ glFree = NULL
    /\ unit = [fn |-> "GetVertDefIndex", g |-> TableStart,
               v |-> <<0, 0, 0>>, t |-> <<0, 0>>, out |-> NULL]

\* The lookup of <<v, t>> in the table of the statics g
Lookup(g, p) ==
    unit' = [fn |-> "GetVertDefIndex", g |-> g, v |-> p[1], t |-> p[2],
             out |-> GetVertDefIndex(p[1], p[2], g)]

\* The statics the next lookup starts from
TableNow == IF unit.out = NULL THEN unit.g ELSE unit.out.g

\* A call of GetVertDefIndex
GetVertDefIndexCall ==
    /\ unit.fn = "GetVertDefIndex"
    /\ TableNow.numVertDefs < MaxDefs
    /\ \E p \in Lookups(TableNow.numVertDefs) : Lookup(TableNow, p)
    /\ UNCHANGED <<inTris, proc, bspData, bspAux, bspFile, glData, glCalled,
                   gldFile, lastLoad, glFree>>

NextTable == GetVertDefIndexCall

SpecTable == InitTable /\ [][NextTable]_vars

\* The lists GenBSPTreeData hands to BuildBSPTree for the soups of the
\* runs: no triangle of them is degenerate
RunLists == {InputList(soup, 1, <<>>) : soup \in RunSoups} \ {<<>>}

\* The working triangles over (0,0), (8,0), (0,8) with corners 4 steps
\* above or below z = 0
SteepTris == {KernelTri(z0, z1, z2) : z0, z1, z2 \in {-4, 4}}

\* The lists handed to BuildBSPTree: those of the runs, those of the single
\* steps, and the triangle in z = 0 followed by two triangles that may cut
\* it and each other
BuildInputs ==
    RunLists \cup StepLists
    \cup {<<KernelTri(0, 0, 0), t1, t2>> : t1, t2 \in SteepTris}

\* The lists the call of BuildBSPTree on the list l hands down
Children(l) ==
    IF BuildStep(l).lp.exited THEN {}
    ELSE {BuildStep(l).lp.frontList, BuildStep(l).lp.backList} \ {<<>>}

\* The lists BuildBSPTree is called on in the builds that start from the
\* lists of S
RECURSIVE ListsFrom(_)
ListsFrom(S) ==
    IF UNION {Children(l) : l \in S} \subseteq S THEN S
    ELSE ListsFrom(S \cup UNION {Children(l) : l \in S})

\* BuildStep on each list BuildBSPTree is called on in the build that
\* starts from the list l
BuildSteps(l) == [x \in ListsFrom({l}) |-> BuildStep(x)]

\* The calls of BuildBSPTree of one build, one after the other: stack holds
\* the lists of the calls still to be made, the next one first; steps holds
\* what the while loop of BuildBSPTree makes of each list it can be called
\* on in this build (a function of the list alone); last tells
\* of the call made last how many triangles its list held (got), how many
\* its node keeps (kept), how many were split (split) and how many went
\* into the front and the back list; grew tells whether some call has
\* handed down a list longer than its own; end is "ok" or "exit"
InitBuild ==
    /\ inTris = <<>>
    /\ proc = "running"
    /\ bspData = NULL
    /\ bspAux = NULL
    /\ bspFile = NULL
    /\ glData = NULL
    /\ glCalled = FALSE
    /\ gldFile = NULL
    /\ lastLoad = NULL
    /\ glFree = NULL
    /\ \E l \in BuildInputs :
          unit = [fn |-> "BuildCalls", stack |-> <<l>>,
                  steps |-> BuildSteps(l), last |-> NULL,
                  grew |-> FALSE, end |-> "ok"]

\* The recursive calls BuildBSPTree makes after its while loop has ended
\* with lp: on the front list if it is not empty, then on the back list if
\* it is not empty (bspc.c:565-602)
Pending(lp) ==
    (IF lp.frontList # <<>> THEN <<lp.frontList>> ELSE <<>>)
    \o (IF lp.backList # <<>> THEN <<lp.backList>> ELSE <<>>)

\* StackAfter with a call that makes no recursive call never returning
StackAfter_LeafStays(stack, lp) ==
    IF Pending(lp) = <<>> THEN stack ELSE Pending(lp) \o Tail(stack)

\* The calls still to be made once the call at the head of stack has got
\* through its while loop with lp
StackAfter(stack, lp) == Pending(lp) \o Tail(stack)

\* The build after the call at the head of the stack has run its while
\* loop as step tells
Called(u, step) ==
    IF step.lp.exited THEN [u EXCEPT !.end = "exit"]
    ELSE [u EXCEPT
            !.stack = StackAfter(u.stack, step.lp),
            !.last = [got |-> Len(Head(u.stack)),
                      kept |-> step.lp.treeNode.numTri,
                      split |-> Len(step.freed),
                      front |-> Len(step.lp.frontList),
                      back |-> Len(step.lp.backList)],
            !.grew = \/ @
                     \/ Len(step.lp.frontList) > Len(Head(u.stack))
                     \/ Len(step.lp.backList) > Len(Head(u.stack))]

\* One call of BuildBSPTree, up to its recursive calls
BuildBSPTreeCall ==
    /\ unit.fn = "BuildCalls"
    /\ unit.end = "ok"
    /\ unit.stack # <<>>
    /\ unit' = Called(unit, unit.steps[Head(unit.stack)])
    /\ UNCHANGED <<inTris, proc, bspData, bspAux, bspFile, glData, glCalled,
                   gldFile, lastLoad, glFree>>

NextBuild == BuildBSPTreeCall

\* A call that has been made runs on: the process is not stopped from
\* outside
SpecBuild == InitBuild /\ [][NextBuild]_vars /\ WF_vars(NextBuild)

(***************************************************************************)
(* The blocks of the heap (bspc.c)                                         *)
(***************************************************************************)
\* A call of malloc that returned the block blk, and a call of free on it.
\* A block is named by what it holds: a working triangle by its corners,
\* its texture ordinates and its texture (two triangles that hold the same
\* are two blocks of one name), a node by its path, a block of the vertex
\* table by its number in the chain
Malloc(blk) == [op |-> "malloc", blk |-> blk]

Free(blk) == [op |-> "free", blk |-> blk]

TriBlock(V, T, tIndex) == <<"BSPTriNode", V, T, tIndex>>

\* The calls of the input loop of GenBSPTreeData on the triangles i..nTri
\* (bspc.c:240-292): a node for each, freed at once if it has no plane
RECURSIVE InputLog(_, _)
InputLog(tris, i) ==
    IF i > Len(tris) THEN <<>>
    ELSE <<Malloc(TriBlock(tris[i].V, tris[i].T, tris[i].tIndex))>>
         \o (IF GetPlaneForTri(tris[i].V).ret # 0
             THEN <<Free(TriBlock(tris[i].V, tris[i].T,
                                  tris[i].tIndex))>>
             ELSE <<>>)
         \o InputLog(tris, i + 1)

\* The calls SplitTri makes for the triangle of the corners a, b, c of a
\* ring (bspc.c:953-981, 987-1018): freed at once if it has no plane
PieceLog(a, b, c, tIndex) ==
    <<Malloc(TriBlock(<<a.V, b.V, c.V>>, <<a.T, b.T, c.T>>, tIndex))>>
    \o (IF GetPlaneForTri(<<a.V, b.V, c.V>>).ret # 0
        THEN <<Free(TriBlock(<<a.V, b.V, c.V>>, <<a.T, b.T, c.T>>, tIndex))>>
        ELSE <<>>)

\* The calls SplitTri makes for one ring of 3 or 4 vertices
RingLog(ring, tIndex) ==
    PieceLog(ring[1], ring[2], ring[3], tIndex)
    \o (IF Len(ring) = 4 THEN PieceLog(ring[3], ring[4], ring[1], tIndex)
        ELSE <<>>)

\* The calls of the while loop of BuildBSPTree over the rest of the list
\* (bspc.c:482-562): those of SplitTri on a SPANNING triangle, then the
\* free of the triangle
RECURSIVE LoopLog(_, _)

\* The calls for the SPANNING triangle aTri once SplitTri has ended with sp
SplitLog(rest, partition, aTri, sp) ==
    IF sp.exited THEN <<>>
    ELSE RingLog(sp.front, aTri.tIndex) \o RingLog(sp.back, aTri.tIndex)
         \o <<Free(TriBlock(aTri.V, aTri.T, aTri.tIndex))>>
         \o LoopLog(rest, partition)

LoopLog(restOfList, partition) ==
    IF restOfList = <<>> THEN <<>>
    ELSE IF ClassifyTri(restOfList[1], partition) # SPANNING
    THEN LoopLog(RemoveTriFromList(restOfList, 1), partition)
    ELSE SplitLog(RemoveTriFromList(restOfList, 1), partition,
                  restOfList[1], SplitTri(restOfList[1], partition))

\* The calls of BuildBSPTree on the node at path with the list triList
RECURSIVE BuildLog(_, _)

\* The calls for the child on one side of the node at path: its node and
\* the calls of BuildBSPTree on it, if its list is not empty
\* (bspc.c:565-602)
SideLog(path, side, list) ==
    IF list = <<>> THEN <<>>
    ELSE <<Malloc(<<"IntBSPTreeNode", Append(path, side)>>)>>
         \o BuildLog(Append(path, side), list)

\* The calls of BuildBSPTree once its while loop has run as step tells
BuildLogOn(path, triList, step) ==
    LoopLog(step.rest, triList[step.root].plane)
    \o (IF step.lp.exited THEN <<>>
        ELSE SideLog(path, "F", step.lp.frontList)
             \o SideLog(path, "B", step.lp.backList))

BuildLog(path, triList) == BuildLogOn(path, triList, BuildStep(triList))

\* The statics after the three calls of GetVertDefIndex for a triangle
\* (bspc.c:2096-2098)
TriTable(tri, g) ==
    GetVertDefIndex(tri.V[3], tri.T[3],
        GetVertDefIndex(tri.V[2], tri.T[2],
            GetVertDefIndex(tri.V[1], tri.T[1], g).g).g).g

\* The blocks of the vertex table made while the chain grew from from to
\* to blocks (bspc.c:2306)
BlockLog(from, to) ==
    [b \in 1..(to - from) |-> Malloc(<<"VertDefs", from + b>>)]

\* The calls of the while loop of ConvIntBSPTree over the triangles from
\* place k on (bspc.c:2087-2142): the blocks GetVertDefIndex makes, then
\* the free of the triangle
RECURSIVE ConvTriLog(_, _, _)

ConvTriLogOn(triHead, k, g, after) ==
    BlockLog(Len(g.vertDefsPtr), Len(after.vertDefsPtr))
    \o <<Free(TriBlock(triHead[k].V, triHead[k].T, triHead[k].tIndex))>>
    \o ConvTriLog(triHead, k + 1, after)

ConvTriLog(triHead, k, g) ==
    IF k > Len(triHead) THEN <<>>
    ELSE ConvTriLogOn(triHead, k, g, TriTable(triHead[k], g))

\* The calls of ConvIntBSPTree on the internal node at path
RECURSIVE ConvLog(_, _, _)

\* The calls for the child on one side of the node at path
ConvSideLog(intNodes, path, side, has, g) ==
    IF has THEN ConvLog(intNodes, Append(path, side), g) ELSE <<>>

\* The calls of ConvIntBSPTree once its while loop has left the statics as
\* g1 and the node with numTri triangles: triDefs is freed if no triangle
\* is left (bspc.c:2144-2149), the back child is converted, then the front
\* child, and the internal node is freed (bspc.c:2184-2209)
ConvLogOn(intNodes, path, g, g1, numTri) ==
    <<Malloc(<<"BSPTree", path>>), Malloc(<<"triDefs", path>>)>>
    \o ConvTriLog(intNodes[path].triHead, 1, g)
    \o (IF numTri = 0 THEN <<Free(<<"triDefs", path>>)>> ELSE <<>>)
    \o ConvSideLog(intNodes, path, "B", intNodes[path].back, g1)
    \o ConvSideLog(intNodes, path, "F", intNodes[path].front,
                   ConvSide(intNodes, path, "B", intNodes[path].back, g1))
    \o <<Free(<<"IntBSPTreeNode", path>>)>>

\* The statics and the node after the while loop of ConvIntBSPTree
ConvLogAfter(intNodes, path, g, lp) ==
    ConvLogOn(intNodes, path, g, ConvStore(path, lp), lp.node.numTri)

ConvLog(intNodes, path, g) ==
    ConvLogAfter(intNodes, path, g,
        ConvLoop(intNodes[path].triHead, 1, ConvNode(intNodes[path]),
                 <<>>, g))

\* The calls of GenBSPTreeData after BuildBSPTree has returned built
\* (bspc.c:338-410): the conversion, the two tables of the result, and the
\* free of every block of the chain
ConvertLog(nMaps, built) ==
    ConvLog(built.nodes, <<>>, ConvStart(StartStatics, nMaps))
    \o <<Malloc(<<"vertCoords">>), Malloc(<<"texCoords">>)>>
    \o [b \in 1..Len(ConvIntBSPTree(built.nodes, <<>>,
                        ConvStart(StartStatics, nMaps)).vertDefsPtr)
          |-> Free(<<"VertDefs", b>>)]

\* The calls of GenBSPTreeData up to the call of BuildBSPTree
\* (bspc.c:188-294)
SetUpLog(tris, nMaps) ==
    <<Malloc(<<"BSPTreeData">>), Malloc(<<"mapNames">>),
      Malloc(<<"texCtrs">>)>>
    \o [i \in 1..nMaps |-> Malloc(<<"mapName", i>>)]
    \o InputLog(tris, 1)
    \o <<Malloc(<<"IntBSPTreeNode", <<>>>>)>>

\* The calls of GenBSPTreeData on a soup of which a triangle is left, once
\* BuildBSPTree has returned built
GenLogOn(tris, nMaps, built) ==
    SetUpLog(tris, nMaps)
    \o BuildLog(<<>>, InputList(tris, 1, <<>>))
    \o (IF built.end = "ok" THEN ConvertLog(nMaps, built) ELSE <<>>)

GenLog(tris, nMaps) ==
    GenLogOn(tris, nMaps,
             BuildBSPTree(<<>>, InputList(tris, 1, <<>>),
                          BuildStart(StartStatics)))

\* The calls of FreeBSPTree on the node at path (bspc.c:2397-2422)
RECURSIVE FreeTreeLog(_, _, _)

\* FreeTreeLog leaving the front child alone
FreeTreeLog_BackOnly(tree, path, nullDefs) ==
    (IF tree[path].back
     THEN FreeTreeLog(tree, Append(path, "B"), nullDefs) ELSE <<>>)
    \o (IF path \in nullDefs THEN <<>> ELSE <<Free(<<"triDefs", path>>)>>)
    \o <<Free(<<"BSPTree", path>>)>>

\* free( root->triDefs) frees nothing if triDefs is NULL
FreeTreeLog(tree, path, nullDefs) ==
    (IF tree[path].back
     THEN FreeTreeLog(tree, Append(path, "B"), nullDefs) ELSE <<>>)
    \o (IF tree[path].front
        THEN FreeTreeLog(tree, Append(path, "F"), nullDefs) ELSE <<>>)
    \o (IF path \in nullDefs THEN <<>> ELSE <<Free(<<"triDefs", path>>)>>)
    \o <<Free(<<"BSPTree", path>>)>>

\* The calls of FreeBSPTreeData (bspc.c:2359-2394); mapTriNums is the
\* block of texCtrs (bspc.c:364)
FreeLog(d, nullDefs) ==
    [i \in 1..d.nMaps |-> Free(<<"mapName", i>>)]
    \o <<Free(<<"mapNames">>), Free(<<"texCtrs">>), Free(<<"vertCoords">>),
         Free(<<"texCoords">>)>>
    \o FreeTreeLog(d.bspTree, <<>>, nullDefs)
    \o <<Free(<<"BSPTreeData">>)>>

\* An input triangle with the corners, the texture ordinates and the
\* texture of a working triangle
InOf(tri) == InTri(tri.V, tri.tIndex, tri.T)

\* The soups compiled and freed: the soups handed to GenGLData of which a
\* triangle is left, the triangle in z = 0 with two triangles that may cut
\* it and each other, and the triangle in z = 0 with a narrow triangle, of
\* which a piece may have no plane, and the collinear triangle
HeapSoups ==
    {soup \in GLDSoups : InputList(soup, 1, <<>>) # <<>>}
    \cup {<<InOf(t2), InOf(t1), InOf(KernelTri(0, 0, 0))>> :
            t1, t2 \in SteepTris}
    \cup {<<TriCatalogue[7],
            InTri(<<<<0, 0, z0>>, <<1, 0, z1>>, <<0, 8, z2>>>>, 0, UniformT),
            InOf(KernelTri(0, 0, 0))>> : z0, z1, z2 \in {-4, 3}}

\* One BSPTreeData from GenBSPTreeData to FreeBSPTreeData: log holds the
\* calls of malloc and free so far, out what GenBSPTreeData returned
InitHeap ==
    /\ inTris = <<>>
    /\ proc = "running"
    /\ bspData = NULL
    /\ bspAux = NULL
    /\ bspFile = NULL
    /\ glData = NULL
    /\ glCalled = FALSE
    /\ gldFile = NULL
    /\ lastLoad = NULL
    /\ glFree = NULL
    /\ \E soup \in HeapSoups :
          unit = [fn |-> "Lifecycle", inTris |-> soup, log |-> <<>>,
                  out |-> NULL, freed |-> FALSE]

\* The call of GenBSPTreeData
CompileCall ==
    /\ unit.fn = "Lifecycle"
    /\ unit.out = NULL
    /\ unit' = [unit EXCEPT
                  !.out = GenBSPTreeData(unit.inTris, Len(TexMapNames),
                                         TexMapNames),
                  !.log = GenLog(unit.inTris, Len(TexMapNames))]
    /\ UNCHANGED <<inTris, proc, bspData, bspAux, bspFile, glData, glCalled,
                   gldFile, lastLoad, glFree>>

\* The call of FreeBSPTreeData on what GenBSPTreeData returned
FreeCall ==
    /\ unit.fn = "Lifecycle"
    /\ unit.out # NULL
    /\ unit.out.end = "ok"
    /\ ~unit.freed
    /\ unit' = [unit EXCEPT
                  !.log = @ \o FreeLog(unit.out.ret, unit.out.nullDefs),
                  !.freed = TRUE]
    /\ UNCHANGED <<inTris, proc, bspData, bspAux, bspFile, glData, glCalled,
                   gldFile, lastLoad, glFree>>

NextHeap == CompileCall \/ FreeCall

SpecHeap == InitHeap /\ [][NextHeap]_vars

\* The passes through the body of the loop of GenGLData, one per behaviour
InitLoop ==
    /\ inTris = <<>>
    /\ proc = "running"
    /\ bspData = NULL
    /\ bspAux = NULL
    /\ bspFile = NULL
    /\ glData = NULL
    /\ glCalled = FALSE
    /\ gldFile = NULL
    /\ lastLoad = NULL
    /\ glFree = NULL
    /\ unit \in LoopCalls

NextLoop == GLDTriangleCall

SpecLoop == InitLoop /\ [][NextLoop]_vars

(***************************************************************************)
(* Properties of the compiled tree                                         *)
(***************************************************************************)
\* The node at path q lies in the sub-tree hanging from side ("B" or "F")
\* of the node at path p
Under(p, side, q) ==
    /\ Len(q) > Len(p)
    /\ SubSeq(q, 1, Len(p)) = p
    /\ q[Len(p) + 1] = side

\* The three vertices of the triangle at place i of the node at path q of
\* the tree of d, read through the vertex table of d
TriVertsOf(d, q, i) ==
    LET vInd == d.bspTree[q].triDefs[i].vIndices
    IN  <<d.vertCoords[vInd[1] + 1], d.vertCoords[vInd[2] + 1],
          d.vertCoords[vInd[3] + 1]>>

\* The triangles stored in the node at path q
TrisAt(d, q) == 1..Len(d.bspTree[q].triDefs)

\* C1: in every tree returned by GenBSPTreeData, every triangle under the
\* front child of a node has all its vertices ABOVE or ON the node's stored
\* partPlane, and every triangle under its back child has them BELOW or ON.
C1_HalfSpaces ==
    bspData # NULL =>
      \A p \in DOMAIN bspData.bspTree, q \in DOMAIN bspData.bspTree :
        \A i \in TrisAt(bspData, q), k \in 1..3 :
          LET where == ClassifyPoint(TriVertsOf(bspData, q, i)[k],
                                     bspData.bspTree[p].partPlane)
          IN  /\ Under(p, "F", q) => where \in {ABOVE_PLANE, ON_PLANE}
              /\ Under(p, "B", q) => where \in {BELOW_PLANE, ON_PLANE}

\* C2: in every tree returned by GenBSPTreeData, every triangle of a node,
\* read through the vertex table, is COINCIDENT with the node's stored
\* partPlane.
C2_Coincident ==
    bspData # NULL =>
      \A q \in DOMAIN bspData.bspTree : \A i \in TrisAt(bspData, q) :
        ClassifyTri([V |-> TriVertsOf(bspData, q, i)],
                    bspData.bspTree[q].partPlane) = COINCIDENT

\* Two BSPTreeData-s are structurally equal: the same header fields, the
\* same children at every node and the same numTri and triangle
\* definitions at every node
StructEqual(a, b) ==
    /\ a.nMaps = b.nMaps
    /\ a.mapNames = b.mapNames
    /\ a.mapTriNums = b.mapTriNums
    /\ a.nVertices = b.nVertices
    /\ a.vertCoords = b.vertCoords
    /\ a.texCoords = b.texCoords
    /\ <<a.minX, a.maxX, a.minY, a.maxY, a.minZ, a.maxZ>>
         = <<b.minX, b.maxX, b.minY, b.maxY, b.minZ, b.maxZ>>
    /\ a.maxDepth = b.maxDepth
    /\ a.numNodes = b.numNodes
    /\ a.numTri = b.numTri
    /\ DOMAIN a.bspTree = DOMAIN b.bspTree
    /\ \A q \in DOMAIN a.bspTree :
          /\ a.bspTree[q].back = b.bspTree[q].back
          /\ a.bspTree[q].front = b.bspTree[q].front
          /\ a.bspTree[q].numTri = b.bspTree[q].numTri
          /\ a.bspTree[q].triDefs = b.bspTree[q].triDefs

\* The last call was LoadBSPTreeData on the stream SaveBSPTreeData wrote
LoadedOwnBSP ==
    /\ lastLoad # NULL
    /\ lastLoad.fn = "LoadBSPTreeData"
    /\ lastLoad.inFile = bspFile

\* C3: LoadBSPTreeData applied to the bytes SaveBSPTreeData wrote for a
\* tree returned by GenBSPTreeData returns a tree structurally equal to it.
C3_BSPRoundTrip ==
    LoadedOwnBSP =>
      /\ lastLoad.end = "ok"
      /\ lastLoad.ret # NULL
      /\ StructEqual(lastLoad.ret, bspData)

\* A tree with both children at its root, a node of two triangles and
\* texture ordinates other than 0 has gone through the round trip
C3_Witness ==
    /\ LoadedOwnBSP
    /\ lastLoad.ret # NULL
    /\ lastLoad.ret.bspTree[<<>>].back
    /\ lastLoad.ret.bspTree[<<>>].front
    /\ \E q \in DOMAIN lastLoad.ret.bspTree : lastLoad.ret.bspTree[q].numTri >= 2
    /\ \E i \in 1..lastLoad.ret.nVertices :
          lastLoad.ret.texCoords[i][1] # lastLoad.ret.texCoords[i][2]

\* C7 as stated: the triangles of every node are emitted in the order the
\* builder added them to the node, the root triangle of the node first.
C7_InsertionOrder ==
    bspData # NULL =>
      \A q \in DOMAIN bspAux.srcOrd :
        \A i \in 1..Len(bspAux.srcOrd[q]), j \in 1..Len(bspAux.srcOrd[q]) :
          i < j => bspAux.srcOrd[q][i] < bspAux.srcOrd[q][j]

\* The node record that starts at place pos of a stream: numTri, the
\* triangle definitions, the cFlag and the place after the record
RecordAt(s, pos) ==
    LET numTri == GetU16(s, pos)
        pPlane == pos + 2 + 8 * numTri
        pFlag == IF numTri = 0 THEN pPlane + 32 ELSE pPlane
    IN  [numTri |-> numTri,
         triDefs |-> [i \in 1..numTri |->
                        [texIndex |-> GetU16(s, pos + 2 + 8 * (i - 1)),
                         vIndices |-> <<GetU16(s, pos + 4 + 8 * (i - 1)),
                                        GetU16(s, pos + 6 + 8 * (i - 1)),
                                        GetU16(s, pos + 8 + 8 * (i - 1))>>]],
         cFlag |-> GetU8(s, pFlag),
         next |-> pFlag + 1]

\* The n node records that follow each other from place pos on
RECURSIVE FlatRecords(_, _, _)
FlatRecords(s, pos, n) ==
    IF n = 0 THEN <<>>
    ELSE LET rec == RecordAt(s, pos)
         IN  <<rec>> \o FlatRecords(s, rec.next, n - 1)

\* The paths of the nodes of a tree in preorder: a node, then its back
\* sub-tree, then its front sub-tree
RECURSIVE Preorder(_, _)
Preorder(tree, path) ==
    <<path>>
    \o (IF tree[path].back THEN Preorder(tree, Append(path, "B")) ELSE <<>>)
    \o (IF tree[path].front THEN Preorder(tree, Append(path, "F")) ELSE <<>>)

\* The node records of the stream SaveBSPTreeData wrote
SavedRecords ==
    FlatRecords(bspFile.bytes, GetHeader(bspFile.bytes, 6).pos + 8,
                bspData.numNodes)

\* A node of three coplanar triangles, all kept, has been written
C7_Witness ==
    /\ bspFile # NULL
    /\ \E q \in DOMAIN bspAux.srcOrd : bspAux.srcOrd[q] = <<3, 2, 1>>

\* C8: WriteBSPTree writes the nodes in preorder (a node, its back
\* sub-tree, its front sub-tree); every cFlag written is 0x00, 0xB0, 0x0F
\* or 0xBF, with the 0xB0 bits set exactly when the node has a back child
\* and the 0x0F bits exactly when it has a front child; ReadBSPTree reads
\* the nodes in the same order.
C8_Preorder ==
    /\ bspFile # NULL =>
         LET pre == Preorder(bspData.bspTree, <<>>)
             recs == SavedRecords
         IN  /\ Len(pre) = bspData.numNodes
             /\ \A n \in 1..Len(pre) :
                  LET node == bspData.bspTree[pre[n]]
                  IN  /\ recs[n].numTri = node.numTri
                      /\ recs[n].triDefs = node.triDefs
                      /\ recs[n].cFlag \in {0, 176, 15, 191}
                      /\ (recs[n].cFlag \div 16 = 11) <=> node.back
                      /\ (recs[n].cFlag % 16 = 15) <=> node.front
             /\ recs[Len(recs)].next = Len(bspFile.bytes) + 1
    /\ LoadedOwnBSP => lastLoad.order = Preorder(bspData.bspTree, <<>>)

\* A tree whose root has a back and a front child with different records
\* has been written and read back
C8_Witness ==
    /\ LoadedOwnBSP
    /\ bspData.bspTree[<<>>].back
    /\ bspData.bspTree[<<>>].front
    /\ bspData.bspTree[<<"B">>].triDefs # bspData.bspTree[<<"F">>].triDefs
    /\ lastLoad.order = <<<<>>, <<"B">>, <<"F">>>>

\* C10: LoadBSPTreeData, given a stream with the right magic and version
\* in which a node record has a cFlag other than 0x00, 0xB0, 0x0F and
\* 0xBF, returns NULL to its caller.
C10_BadFlagReturnsNull ==
    (/\ lastLoad # NULL
     /\ lastLoad.fn = "LoadBSPTreeData"
     /\ lastLoad.inFile \in BadFlagStreams(bspFile))
    => /\ lastLoad.end = "ok"
       /\ lastLoad.ret = NULL

(***************************************************************************)
(* Properties of the mesh data and of the loaders                          *)
(***************************************************************************)
\* The last call was LoadGLData on the stream SaveGLData wrote
LoadedOwnGLD ==
    /\ lastLoad # NULL
    /\ lastLoad.fn = "LoadGLData"
    /\ lastLoad.inFile = gldFile

\* Two GLData-s are identical in what a GLD stream holds
MeshEqual(a, b) ==
    /\ a.nMaps = b.nMaps
    /\ a.mapNames = b.mapNames
    /\ a.mapTriNums = b.mapTriNums
    /\ a.nVertices = b.nVertices
    /\ a.vertCoords = b.vertCoords
    /\ a.texCoords = b.texCoords
    /\ <<a.minX, a.maxX, a.minY, a.maxY, a.minZ, a.maxZ>>
         = <<b.minX, b.maxX, b.minY, b.maxY, b.minZ, b.maxZ>>
    /\ a.numTri = b.numTri
    /\ \A i \in 1..a.nMaps :
          SubSeq(a.triFaces[i], 1, 3 * a.mapTriNums[i])
            = SubSeq(b.triFaces[i], 1, 3 * b.mapTriNums[i])

\* C4: LoadGLData applied to the bytes SaveGLData wrote for a mesh returned
\* by GenGLData returns a mesh identical to it.
C4_GLDRoundTrip ==
    LoadedOwnGLD =>
      /\ lastLoad.ret # NULL
      /\ MeshEqual(lastLoad.ret, glData)

\* A mesh with triangles of both textures, one of them of two triangles,
\* has gone through the round trip
C4_Witness ==
    /\ LoadedOwnGLD
    /\ lastLoad.ret # NULL
    /\ lastLoad.ret.mapTriNums = <<2, 1>>
    /\ lastLoad.ret.triFaces[1] # <<>>
    /\ lastLoad.ret.triFaces[2] # <<>>

\* C5: in every mesh returned by GenGLData every vertex index of every
\* texture's index array is less than nVertices, and the three indices of
\* every triangle stored are pairwise distinct.
C5_GLIndices ==
    glData # NULL =>
      \A i \in 1..glData.nMaps :
        /\ Len(glData.triFaces[i]) = 3 * glData.mapTriNums[i]
        /\ \A k \in 1..Len(glData.triFaces[i]) :
              glData.triFaces[i][k] < glData.nVertices
        /\ \A t \in 1..glData.mapTriNums[i] :
              /\ glData.triFaces[i][3 * t - 2] # glData.triFaces[i][3 * t - 1]
              /\ glData.triFaces[i][3 * t - 1] # glData.triFaces[i][3 * t]
              /\ glData.triFaces[i][3 * t] # glData.triFaces[i][3 * t - 2]

\* GenGLData has skipped a triangle two of whose vertices were folded into
\* one entry, and has stored others
C5_Witness ==
    /\ glData # NULL
    /\ glData.skippedTris
    /\ glData.numTri >= 2

\* The entries i and j of a vertex table are within the tolerances vEps and
\* tEps of each other on all five ordinates
Close(d, i, j, vEps, tEps) ==
    /\ Abs(d.vertCoords[i][1] - d.vertCoords[j][1]) <= vEps
    /\ Abs(d.vertCoords[i][2] - d.vertCoords[j][2]) <= vEps
    /\ Abs(d.vertCoords[i][3] - d.vertCoords[j][3]) <= vEps
    /\ Abs(d.texCoords[i][1] - d.texCoords[j][1]) <= tEps
    /\ Abs(d.texCoords[i][2] - d.texCoords[j][2]) <= tEps

\* C6: in the vertex table built by GetVertDefIndex for GenBSPTreeData and
\* in the one built by GenGLData no two distinct entries are within
\* tolerance of each other on all five ordinates.
C6_NoCloseEntries ==
    /\ bspData # NULL =>
         \A i \in 1..bspData.nVertices, j \in 1..bspData.nVertices :
           i # j => ~Close(bspData, i, j, BSP_VERT_ORD_EPSILON,
                            BSP_TEX_ORD_EPSILON)
    /\ glData # NULL =>
         \A i \in 1..glData.nVertices, j \in 1..glData.nVertices :
           i # j => ~Close(glData, i, j, GLD_VERT_ORD_EPSILON,
                            GLD_TEX_ORD_EPSILON)

\* Both tables have been built from a soup with the sliver, two of whose
\* vertices are exactly the tolerance apart, and another triangle
C6_Witness ==
    /\ bspData # NULL
    /\ glData # NULL
    /\ \E i \in 1..Len(inTris) : inTris[i] = TriCatalogue[8]
    /\ bspData.nVertices >= 5
    /\ bspData.nVertices < 3 * Len(inTris)
    /\ glData.nVertices >= 5
    /\ glData.nVertices < 3 * Len(inTris)

\* The stream f starts with the magic and the version 0x10 of the format
\* the loader fn reads
Signed(fn, f) ==
    /\ Len(f.bytes) >= 5
    /\ SubSeq(f.bytes, 1, 4) = (IF fn = "LoadBSPTreeData"
                                THEN <<66, 83, 80, 0>> ELSE <<71, 76, 68, 0>>)
    /\ f.bytes[5] = 16

\* C9: LoadBSPTreeData and LoadGLData return NULL when the first four
\* bytes of the stream are not the magic of their format or the fifth is
\* not the version 0x10, reading nothing after the fifth byte; each
\* rejects a stream the saver of the other format wrote, and each returns
\* NULL for a NULL stream.
C9_BadSignature ==
    lastLoad # NULL =>
      /\ (lastLoad.inFile = NULL \/ ~Signed(lastLoad.fn, lastLoad.inFile))
           => /\ lastLoad.ret = NULL
              /\ lastLoad.end = "ok"
              /\ lastLoad.pos <= 5
      /\ lastLoad.inFile = NULL => lastLoad.pos = 0
      /\ (lastLoad.fn = "LoadBSPTreeData" /\ lastLoad.inFile = gldFile)
           => lastLoad.ret = NULL
      /\ (lastLoad.fn = "LoadGLData" /\ lastLoad.inFile = bspFile)
           => lastLoad.ret = NULL

\* LoadBSPTreeData has been given a stream of its own format but for the
\* last byte of the magic, and has read five bytes of it
C9_Witness ==
    /\ lastLoad # NULL
    /\ lastLoad.fn = "LoadBSPTreeData"
    /\ lastLoad.inFile # NULL
    /\ Len(lastLoad.inFile.bytes) > 5
    /\ SubSeq(lastLoad.inFile.bytes, 1, 3) = <<66, 83, 80>>
    /\ lastLoad.inFile.bytes[4] # 0
    /\ lastLoad.inFile.bytes[5] = 16
    /\ lastLoad.ret = NULL
    /\ lastLoad.pos = 5


(***************************************************************************)
(* Properties of the compiler's error handling                             *)
(***************************************************************************)
\* C11: degenerate input triangles never make GenBSPTreeData end
\* abnormally: whatever the soup, and however many of its triangles have a
\* plane (none included), a call of GenBSPTreeData that has ended has
\* returned a BSPTreeData.
C11_DegenerateNeverFatal ==
    bspAux # NULL => bspData # NULL


(***************************************************************************)
(* Properties of the release of a mesh                                     *)
(***************************************************************************)
\* C12: FreeGLData releases every block a mesh owns exactly once: after
\* FreeGLData on a mesh returned by GenGLData or by LoadGLData every block
\* of the mesh has been freed once, none twice and none not at all.
C12_FreedExactlyOnce ==
    glFree # NULL => \A b \in DOMAIN glFree.frees : glFree.frees[b] = 1


(***************************************************************************)
(* Properties of the splitter, the classifier and the choice of a root     *)
(***************************************************************************)
\* SplitTri has been called and has ended
SplitCalled == unit # NULL /\ unit.fn = "SplitTri" /\ unit.out # NULL

\* The labels ClassifyPoint gives the three vertices of the triangle of a
\* call against the plane of the call
LabelsOf(u) == [i \in 1..3 |-> ClassifyPoint(u.aTri.V[i], u.plane)]

\* One vertex is below the plane, one above it and one on it
OneOfEach(u) == {LabelsOf(u)[i] : i \in 1..3}
                    = {BELOW_PLANE, ABOVE_PLANE, ON_PLANE}

\* The vertex v is one of the vertices of the ring
InRing(ring, v) == \E k \in 1..Len(ring) : ring[k].V = v

\* The vertices on the plane are in both rings
OnVerticesInBoth(u) ==
    \A i \in 1..3 :
        LabelsOf(u)[i] = ON_PLANE =>
            /\ InRing(u.out.front, u.aTri.V[i])
            /\ InRing(u.out.back, u.aTri.V[i])

\* C13 as stated: a triangle with one vertex below, one above and one on
\* the plane is split into three triangles, one on one side and two on the
\* other, the vertex on the plane being in both rings.
C13_ThreePieces ==
    (SplitCalled /\ OneOfEach(unit)) =>
        /\ ~unit.out.exited
        /\ {Len(unit.out.fList), Len(unit.out.bList)} = {1, 2}
        /\ OnVerticesInBoth(unit)

\* The list SplitTri returns for a ring of three vertices holds the one
\* triangle of the three vertices, in their order
OneTriangleOf(list, ring) ==
    /\ Len(ring) = 3
    /\ Len(list) = 1
    /\ list[1].V = <<ring[1].V, ring[2].V, ring[3].V>>

\* C13 amended: a triangle with one vertex below, one above and one on the
\* plane is cut along the line through the vertex on the plane: both rings
\* end with three vertices, the vertex on the plane among them, and
\* SplitTri returns two triangles, one in front and one in back.
C13_TwoPieces ==
    (SplitCalled /\ OneOfEach(unit)) =>
        /\ ~unit.out.exited
        /\ OneTriangleOf(unit.out.fList, unit.out.front)
        /\ OneTriangleOf(unit.out.bList, unit.out.back)
        /\ OnVerticesInBoth(unit)

\* SplitTri has split the triangle (0,0,-4), (8,0,4), (0,8,0) by the plane
\* z = 0 into one triangle in front and one in back
C13_Witness ==
    /\ SplitCalled
    /\ unit.aTri.V = <<<<0, 0, -4>>, <<8, 0, 4>>, <<0, 8, 0>>>>
    /\ unit.plane.C > 0 /\ unit.plane.B = 0
    /\ OneOfEach(unit)
    /\ Len(unit.out.fList) = 1 /\ Len(unit.out.bList) = 1


\* C14: SplitTri called with a triangle that is not SPANNING with respect
\* to the plane (COINCIDENT, IN_FRONT or IN_BACK) ends in the fatal exit
\* 'asked to split non-spanning triangle' and returns no triangles.
C14_NonSpanningExits ==
    (SplitCalled /\ ClassifyTri(unit.aTri, unit.plane) # SPANNING) =>
        /\ unit.out.exited
        /\ unit.out.why = "non-spanning"
        /\ unit.out.fList = <<>>
        /\ unit.out.bList = <<>>


\* ClassifyTri has been called and has returned
ClassifyCalled == unit # NULL /\ unit.fn = "ClassifyTri" /\ unit.out # NULL

\* The magnitude of the normal of a plane of the calls (a whole number for
\* each of them)
NormMag(p) == CHOOSE n \in 0..NormSq(p) : n * n = NormSq(p)

\* The signed distances of the three vertices to the plane, and the
\* thickness of the plane, both in units of 1 / NormMag
SignedDist(u) == [i \in 1..3 |-> PlaneLHS(u.aTri.V[i], u.plane)]

Thick(u) == PLANE_THICKNESS * NormMag(u.plane)

\* The kind of a triangle by its three signed distances d and the
\* thickness e, in the order of the tests
KindByDist(d, e) ==
    IF \A i \in 1..3 : Abs(d[i]) <= e THEN COINCIDENT
    ELSE IF \A i \in 1..3 : d[i] >= 0 - e THEN IN_FRONT
    ELSE IF \A i \in 1..3 : d[i] <= e THEN IN_BACK
    ELSE SPANNING

\* The label of a point by its signed distance d and the thickness e
LabelByDist(d, e) ==
    IF Abs(d) <= e THEN ON_PLANE
    ELSE IF d > e THEN ABOVE_PLANE
    ELSE BELOW_PLANE

\* C15: the kind of a triangle is a function of the signed distances of
\* its vertices to the plane: COINCIDENT iff all are within the thickness
\* (the boundary included), else IN_FRONT iff none is below, else IN_BACK
\* iff none is above, else SPANNING, which is exactly when one is above and
\* one below; ClassifyPoint gives ON, ABOVE or BELOW by the same distance.
C15_Classification ==
    ClassifyCalled =>
        LET d == SignedDist(unit)
            e == Thick(unit)
        IN  /\ unit.out.retVal = KindByDist(d, e)
            /\ unit.out.retVal = SPANNING <=>
                  /\ \E i \in 1..3 : d[i] > e
                  /\ \E j \in 1..3 : d[j] < 0 - e
            /\ \A i \in 1..3 : unit.out.vType[i] = LabelByDist(d[i], e)
            /\ \A i \in 1..3 :
                  /\ unit.out.vType[i] = ABOVE_PLANE <=> d[i] > e
                  /\ unit.out.vType[i] = BELOW_PLANE <=> d[i] < 0 - e

\* ClassifyTri has found a triangle COINCIDENT that has a vertex at the
\* thickness above the plane and one at the thickness below it
C15_Witness ==
    /\ ClassifyCalled
    /\ unit.out.retVal = COINCIDENT
    /\ \E i, j \in 1..3 :
          /\ SignedDist(unit)[i] = Thick(unit)
          /\ SignedDist(unit)[j] = 0 - Thick(unit)


(***************************************************************************)
(* Properties of the generator of meshes                                   *)
(***************************************************************************)
\* GenGLData has been called on parameters of its own and has returned
GenGLCalled == unit # NULL /\ unit.fn = "GenGLData" /\ unit.out # NULL

\* Some texture index of the call is not below nMaps
BadTexIndex(u) ==
    /\ u.texIndices # NULL
    /\ \E i \in 1..u.nTri : u.texIndices.at[i] >= u.nMaps

\* One of the arrays of the call is NULL
NullArray(u) ==
    \/ u.triVerts = NULL
    \/ u.texIndices = NULL
    \/ u.triTexCoords = NULL
    \/ u.texMapNames = NULL

\* C16: GenGLData returns NULL whenever some texIndices[i] >= nMaps, and
\* when nTri = 0, nMaps = 0 or an input array is NULL; for every other
\* input it returns a mesh.
C16_NullOnBadInput ==
    GenGLCalled =>
        (unit.out.ret = NULL <=>
            \/ BadTexIndex(unit)
            \/ unit.nTri = 0
            \/ unit.nMaps = 0
            \/ NullArray(unit))

\* GenGLData has returned NULL for the one reason that a texture index of
\* the second of two triangles is not below nMaps
C16_Witness ==
    /\ GenGLCalled
    /\ unit.out.ret = NULL
    /\ unit.nTri = 2 /\ unit.nMaps = 1 /\ ~NullArray(unit)
    /\ unit.texIndices.at[1] = 0
    /\ unit.texIndices.at[2] = 1


(***************************************************************************)
(* Properties of the collision detector                                    *)
(***************************************************************************)
HitCalled == unit.fn = "hasCollision" /\ unit.out # NULL

\* The length of the segment of a call
SegLength(u) == Sqrt(DOT(SUB(u.toPt, u.fromPt), SUB(u.toPt, u.fromPt)))

\* The triangles of a mesh, in no order
FaceSet(model) ==
    {at \in (1..model.nMaps) \X (0..model.numTri) :
        at[2] < model.mapTriNums[at[1]]}

\* What intersectsFace makes of the triangle at of the mesh and the ray of
\* the call u
RayOnFace(u, at) ==
    intersectsFace(u.fromPt,
                   [num |-> SUB(u.toPt, u.fromPt), den |-> SegLength(u)],
                   FaceVert(u.model, at[1], at[2], 0),
                   FaceVert(u.model, at[1], at[2], 1),
                   FaceVert(u.model, at[1], at[2], 2))

\* The ray parameters t with 0 <= t <= L at which a triangle is intersected
HitsOnSegment(u) ==
    {RayOnFace(u, at).t :
        at \in {f \in FaceSet(u.model) :
                   /\ RayOnFace(u, f).ret
                   /\ RayOnFace(u, f).t.n >= 0
                   /\ ~FracLess([n |-> SegLength(u), d |-> 1],
                                RayOnFace(u, f).t)}}

Nearest(hits) == CHOOSE t \in hits : \A o \in hits : ~FracLess(o, t)

\* The same triangles with the texture maps and the triangles of each map
\* in the opposite order
Regrouped(model) ==
    [model EXCEPT
       !.mapNames = [i \in 1..model.nMaps |-> model.mapNames[model.nMaps + 1 - i]],
       !.mapTriNums = [i \in 1..model.nMaps |-> model.mapTriNums[model.nMaps + 1 - i]],
       !.triFaces = [i \in 1..model.nMaps |->
           [k \in 1..(3 * model.mapTriNums[model.nMaps + 1 - i]) |->
               model.triFaces[model.nMaps + 1 - i]
                   [3 * (model.mapTriNums[model.nMaps + 1 - i] - 1 - ((k - 1) \div 3))
                    + ((k - 1) % 3) + 1]]]]

\* What C17 says of a call with the hits on its segment
HitContract(u, hits) ==
    /\ u.out.retVal = (hits # {})
    /\ u.out.dist = IF hits # {} THEN Nearest(hits) ELSE DIST_MAX
    /\ hasCollision(Regrouped(u.model), u.fromPt, u.toPt).retVal = u.out.retVal
    /\ hasCollision(Regrouped(u.model), u.fromPt, u.toPt).dist = u.out.dist

\* C17: over a segment of non-zero length hasCollision returns true exactly
\* when some triangle of the mesh is intersected at a ray parameter t with
\* 0 <= t <= L, *dist is then the least such t, and otherwise it returns
\* false with *dist = FLT_MAX; the order and the grouping of the triangles
\* make no difference
C17_NearestHit ==
    (HitCalled /\ SegLength(unit) > 0) => HitContract(unit, HitsOnSegment(unit))

\* A call that returned with the segment meeting triangles at two distances,
\* the nearer one met by the later triangle
C17_Witness ==
    /\ HitCalled
    /\ SegLength(unit) > 0
    /\ Cardinality(HitsOnSegment(unit)) >= 2
    /\ unit.out.retVal
    /\ \E a, b \in FaceSet(unit.model) :
          /\ a[1] < b[1]
          /\ RayOnFace(unit, a).ret /\ RayOnFace(unit, b).ret
          /\ RayOnFace(unit, b).t = unit.out.dist
          /\ FracLess(unit.out.dist, RayOnFace(unit, a).t)

\* C18: called with fromPt equal to toPt hasCollision returns true for every
\* mesh, a mesh with no triangle too, tests no triangle and leaves *dist at
\* FLT_MAX
C18_ZeroLengthHits ==
    (HitCalled /\ unit.fromPt = unit.toPt) =>
        /\ unit.out.retVal
        /\ unit.out.tested = 0
        /\ unit.out.dist = DIST_MAX

\* A call with fromPt equal to toPt that returned, on a mesh with a
\* triangle through that point
C18_Witness ==
    /\ HitCalled
    /\ unit.fromPt = unit.toPt
    /\ unit.model.numTri > 0
    /\ unit.out.retVal
    /\ \E at \in FaceSet(unit.model) :
          FaceVert(unit.model, at[1], at[2], 0) = unit.fromPt


(***************************************************************************)
(* Properties of the choice of the root                                    *)
(***************************************************************************)
SelectCalled == unit.fn = "SelectNextRoot" /\ unit.out # NULL

\* The number of triangles of the list other than the candidate at place c
\* that ClassifyTri finds of the given kind against the candidate's plane
RECURSIVE CountKind(_, _, _, _)
CountKind(list, c, kind, k) ==
    IF k > Len(list) THEN 0
    ELSE CountKind(list, c, kind, k + 1)
         + (IF k # c /\ ClassifyTri(list[k], list[c].plane) = kind
            THEN 1 ELSE 0)

\* splits + |inFront - inBack| of the candidate at place c
Score(list, c) ==
    CountKind(list, c, SPANNING, 1)
    + Abs(CountKind(list, c, IN_FRONT, 1) - CountKind(list, c, IN_BACK, 1))

\* The earliest place of the list with the least score
EarliestBest(list) ==
    CHOOSE r \in 1..Len(list) :
        /\ \A c \in 1..Len(list) : Score(list, r) <= Score(list, c)
        /\ \A c \in 1..(r - 1) : Score(list, r) < Score(list, c)

\* C19: on a non-empty list SelectNextRoot returns as root the earliest
\* triangle whose score splits + |inFront - inBack| is the least of all
\* candidates, whether the scan ended early on a score of 0 or not, and the
\* list it returns is the input list without that triangle, the others in
\* their order
C19_EarliestMinimalScore ==
    (SelectCalled /\ unit.triList # <<>>) =>
        /\ unit.out.root = EarliestBest(unit.triList)
        /\ Len(unit.out.rest) = Len(unit.triList) - 1
        /\ \A i \in 1..Len(unit.out.rest) :
              unit.out.rest[i] = unit.triList[IF i < unit.out.root
                                              THEN i ELSE i + 1]

\* A call that returned a root that is not the last of the list, with a
\* later candidate of the same score above 0
C19_Witness ==
    /\ SelectCalled
    /\ unit.triList # <<>>
    /\ unit.out.root = EarliestBest(unit.triList)
    /\ Score(unit.triList, unit.out.root) > 0
    /\ \E c \in (unit.out.root + 1)..Len(unit.triList) :
          Score(unit.triList, c) = Score(unit.triList, unit.out.root)


(***************************************************************************)
(* Properties of the vertex rings of SplitTri                              *)
(***************************************************************************)
SpanningCalled ==
    SplitCalled /\ ClassifyTri(unit.aTri, unit.plane) = SPANNING

\* The edge from the vertex i to the next one goes from one side of the
\* plane to the other
EdgeIsCut(u, i) ==
    {ClassifyPoint(u.aTri.V[i], u.plane),
     ClassifyPoint(u.aTri.V[(i % 3) + 1], u.plane)}
        = {ABOVE_PLANE, BELOW_PLANE}

\* The boundary walk v0, P01, v1, P12, v2, P20 by its places 1..6: the
\* point at a place, and whether the place belongs to the ring of a side
\* (ABOVE_PLANE for the front ring, BELOW_PLANE for the back ring)
WalkPoint(u, k) ==
    IF k % 2 = 1 THEN u.aTri.V[(k + 1) \div 2]
    ELSE IntersectPlaneLineSeg(u.plane, u.aTri.V[k \div 2],
                               u.aTri.V[((k \div 2) % 3) + 1]).res

OnSide(u, k, side) ==
    IF k % 2 = 1
    THEN ClassifyPoint(u.aTri.V[(k + 1) \div 2], u.plane) \in {side, ON_PLANE}
    ELSE EdgeIsCut(u, k \div 2)

SideWalk(u, side) ==
    SelectSeq(<<1, 2, 3, 4, 5, 6>>, LAMBDA k : OnSide(u, k, side))

\* The ring holds the points of the walk that belong to the side, in the
\* cyclic order of the walk
InCyclicOrder(u, ring, walk) ==
    /\ Len(ring) = Len(walk)
    /\ \E s \in 0..(Len(walk) - 1) :
          \A i \in 1..Len(ring) :
             ring[i].V = WalkPoint(u, walk[((i - 1 + s) % Len(walk)) + 1])

\* The normal of the triangle a, b, c by the right-hand rule
TriNormal(a, b, c) ==
    <<(b[2] - a[2]) * (c[3] - a[3]) - (b[3] - a[3]) * (c[2] - a[2]),
      (b[3] - a[3]) * (c[1] - a[1]) - (b[1] - a[1]) * (c[3] - a[3]),
      (b[1] - a[1]) * (c[2] - a[2]) - (b[2] - a[2]) * (c[1] - a[1])>>

\* The triangle a, b, c is not wound against the triangle of the call
NotFlipped(u, a, b, c) ==
    LET n == TriNormal(a, b, c)
        m == TriNormal(u.aTri.V[1], u.aTri.V[2], u.aTri.V[3])
    IN  n[1] * m[1] + n[2] * m[2] + n[3] * m[3] >= 0

\* The triangles (r0,r1,r2) and (r2,r3,r0) of a ring keep the winding
RingKeepsWinding(u, ring) ==
    /\ NotFlipped(u, ring[1].V, ring[2].V, ring[3].V)
    /\ Len(ring) = 4 => NotFlipped(u, ring[3].V, ring[4].V, ring[1].V)

\* The triangles of a list SplitTri returned keep the winding
ListKeepsWinding(u, list) ==
    \A k \in 1..Len(list) :
        NotFlipped(u, list[k].V[1], list[k].V[2], list[k].V[3])

\* C20: for a spanning triangle the front ring and the back ring of SplitTri
\* each end with 3 or 4 vertices, so that the exit for more than four
\* vertices is not taken and each side gives two triangles at most; each
\* ring lists its vertices in the cyclic order of the walk v0, P01, v1, P12,
\* v2, P20; and the triangles (r0,r1,r2) and (r2,r3,r0) made of a ring keep
\* the winding of the triangle that was split
C20_RingsOfThreeOrFour ==
    SpanningCalled =>
        /\ Len(unit.out.front) \in {3, 4}
        /\ Len(unit.out.back) \in {3, 4}
        /\ ~unit.out.exited
        /\ Len(unit.out.fList) <= 2
        /\ Len(unit.out.bList) <= 2
        /\ InCyclicOrder(unit, unit.out.front, SideWalk(unit, ABOVE_PLANE))
        /\ InCyclicOrder(unit, unit.out.back, SideWalk(unit, BELOW_PLANE))
        /\ RingKeepsWinding(unit, unit.out.front)
        /\ RingKeepsWinding(unit, unit.out.back)
        /\ ListKeepsWinding(unit, unit.out.fList)
        /\ ListKeepsWinding(unit, unit.out.bList)

\* A spanning triangle split into a front ring of four vertices and a back
\* ring of three, with two triangles in front and one in back
C20_Witness ==
    /\ SpanningCalled
    /\ Len(unit.out.front) = 4
    /\ Len(unit.out.back) = 3
    /\ Len(unit.out.fList) = 2
    /\ Len(unit.out.bList) = 1
    /\ unit.out.front[2].V # unit.out.front[3].V


(***************************************************************************)
(* Properties of one step of BuildBSPTree                                  *)
(***************************************************************************)
StepCalled == unit.fn = "BuildBSPTree" /\ unit.out # NULL

\* A working triangle without the bookkeeping of the model
Bare(tri) == [tri EXCEPT !.ord = 0]

\* How often each triangle occurs in a list
Census(list) ==
    [x \in {Bare(list[k]) : k \in 1..Len(list)} |->
        Cardinality({k \in 1..Len(list) : Bare(list[k]) = x})]

\* The triangles of a list of the given kind against the plane, in order
OfKind(list, plane, kind) ==
    SelectSeq(list, LAMBDA x : ClassifyTri(x, plane) = kind)

\* The pieces SplitTri makes on one side ("fList" or "bList") of the
\* spanning triangles of a list
RECURSIVE Pieces(_, _, _)
Pieces(list, plane, side) ==
    IF list = <<>> THEN <<>>
    ELSE (IF ClassifyTri(list[1], plane) = SPANNING
          THEN SplitTri(list[1], plane)[side] ELSE <<>>)
         \o Pieces(Tail(list), plane, side)

\* What C21 says of a step on the rest of the list around the root
StepKeepsAll(out, rest, rootTri) ==
    /\ Census(out.lp.treeNode.triHead)
         = Census(<<rootTri>> \o OfKind(rest, rootTri.plane, COINCIDENT))
    /\ Census(out.lp.frontList)
         = Census(OfKind(rest, rootTri.plane, IN_FRONT)
                  \o Pieces(rest, rootTri.plane, "fList"))
    /\ Census(out.lp.backList)
         = Census(OfKind(rest, rootTri.plane, IN_BACK)
                  \o Pieces(rest, rootTri.plane, "bList"))
    /\ Census(out.freed) = Census(OfKind(rest, rootTri.plane, SPANNING))
    /\ out.lp.treeNode.numTri = Len(out.lp.treeNode.triHead)

\* C21: a step of BuildBSPTree loses and doubles no triangle: after the
\* while loop every triangle but the root is in the node's list iff it is
\* COINCIDENT, in the front list iff IN_FRONT, in the back list iff IN_BACK
\* and freed iff SPANNING, with its front pieces that have a plane in the
\* front list and its back pieces that have one in the back list, and the
\* node's numTri is the length of its list
C21_StepKeepsTriangles ==
    StepCalled =>
        StepKeepsAll(unit.out, unit.out.rest, unit.triList[unit.out.root])

\* A step that freed one triangle and put its three pieces into the front
\* list and the back list
C21_Witness ==
    /\ StepCalled
    /\ Len(unit.out.freed) = 1
    /\ Len(unit.out.lp.frontList) + Len(unit.out.lp.backList) = 3
    /\ ~unit.out.lp.exited


(***************************************************************************)
(* Properties of the conversion of the internal tree                       *)
(***************************************************************************)
\* A call of GenBSPTreeData that has returned a BSPTreeData
RunReturned ==
    unit.fn = "GenBSPTreeData" /\ unit.out # NULL /\ unit.out.end = "ok"

\* The index of the first entry of the vertex table d within tolerance of
\* the vertex v with the mapping t (counted from 0; nVertices if none)
FirstEntry(d, v, t) ==
    LET near == {k \in 1..Len(d.vertCoords) :
                   /\ \A c \in 1..3 :
                         Abs(d.vertCoords[k][c] - v[c]) <= BSP_VERT_ORD_EPSILON
                   /\ \A c \in 1..2 :
                         Abs(d.texCoords[k][c] - t[c]) <= BSP_TEX_ORD_EPSILON}
    IN  IF near = {} THEN Len(d.vertCoords)
        ELSE (CHOOSE k \in near : \A o \in near : k <= o) - 1

\* The three table indices of a working triangle
TableIndices(d, tri) ==
    [j \in 1..3 |-> FirstEntry(d, tri.V[j], tri.T[j])]

\* Two of the indices are equal, or the table positions of the three have
\* no plane
Folded(d, ind) ==
    \/ Cardinality({ind[1], ind[2], ind[3]}) < 3
    \/ GetPlaneForTri(<<d.vertCoords[ind[1] + 1], d.vertCoords[ind[2] + 1],
                        d.vertCoords[ind[3] + 1]>>).ret # 0

\* The triangles of a coplanar list that are to be retained, as faces, in
\* the order of the list
Retained(d, triHead) ==
    LET face(k) == [texIndex |-> triHead[k].tIndex,
                    vIndices |-> TableIndices(d, triHead[k])]
        keep == SelectSeq([k \in 1..Len(triHead) |-> k],
                          LAMBDA k : ~Folded(d, TableIndices(d, triHead[k])))
    IN  [i \in 1..Len(keep) |-> face(keep[i])]

\* What C22 says of the node at path q
Compacted(d, aux, q) ==
    /\ d.bspTree[q].back = aux.intNodes[q].back
    /\ d.bspTree[q].front = aux.intNodes[q].front
    /\ d.bspTree[q].triDefs = Retained(d, aux.intNodes[q].triHead)
    /\ d.bspTree[q].numTri = Len(d.bspTree[q].triDefs)
    /\ (q \in aux.nullDefs) = (d.bspTree[q].numTri = 0)
    /\ d.bspTree[q].numTri = 0 =>
          d.bspTree[q].partPlane = aux.intNodes[q].partition

\* C22: ConvIntBSPTree keeps the shape of the tree and compacts each node:
\* a converted node has a back or front child exactly when the internal
\* node had one, also when all its triangles were dropped; numTri is the
\* number of triangles retained, which fill triDefs in the order of the
\* traversal; a triangle is dropped exactly when two of its table indices
\* are equal or the plane of its table positions is degenerate; a node with
\* no triangle retained has triDefs = NULL and the plane it was built with
C22_ShapeKeptNodesCompacted ==
    RunReturned =>
        /\ DOMAIN unit.out.ret.bspTree = DOMAIN unit.out.intNodes
        /\ \A q \in DOMAIN unit.out.intNodes :
              Compacted(unit.out.ret, unit.out, q)

\* A compiled tree with a node whose first triangle was dropped and whose
\* triDefs starts with a later one, the tree having a child node
C22_Witness ==
    /\ RunReturned
    /\ Cardinality(DOMAIN unit.out.intNodes) > 1
    /\ \E q \in DOMAIN unit.out.intNodes :
          /\ unit.out.ret.bspTree[q].numTri > 0
          /\ Folded(unit.out.ret,
                    TableIndices(unit.out.ret, unit.out.intNodes[q].triHead[1]))


(***************************************************************************)
(* Properties of the static data of the compiler                           *)
(***************************************************************************)
\* C27: the static data of the compiler (the vertex table and its count,
\* the bounds, the texture counters, the counters of nodes, triangles and
\* depth) are set anew in every call of GenBSPTreeData: what it returns for
\* a soup is the same whether it is the first call of the process or comes
\* after other calls that have returned
C27_StaticsResetPerCall ==
    (unit.fn = "GenBSPTreeData" /\ unit.out # NULL) =>
        /\ unit.out.end
             = GenBSPTreeData(unit.inTris, Len(TexMapNames), TexMapNames).end
        /\ unit.out.ret
             = GenBSPTreeData(unit.inTris, Len(TexMapNames), TexMapNames).ret

\* A call that returned a tree of several nodes after two earlier calls
\* that left counters and bounds behind
C27_Witness ==
    /\ RunReturned
    /\ Len(unit.earlier) = 2
    /\ unit.out.ret.numNodes > 1
    /\ unit.out.ret.nVertices > 3
    /\ unit.out.statics # StartStatics

(***************************************************************************)
(* The partition planes in the saved stream                                *)
(***************************************************************************)
\* The number of bytes WriteBSPTree writes for a node of numTri triangles
RecordLen(numTri) == 2 + 8 * numTri + (IF numTri = 0 THEN 32 ELSE 0) + 1

\* The place in the stream of the record of the n-th node written, the
\* first record being at place pos
RECURSIVE RecordPlace(_, _, _)
RecordPlace(pre, pos, n) ==
    IF n = 1 THEN pos
    ELSE RecordPlace(pre, pos, n - 1)
           + RecordLen(bspData.bspTree[pre[n - 1]].numTri)

\* The plane through the table positions of the first triangle of a node
TablePlane(d, q) ==
    GetPlaneForTri(<<d.vertCoords[d.bspTree[q].triDefs[1].vIndices[1] + 1],
                     d.vertCoords[d.bspTree[q].triDefs[1].vIndices[2] + 1],
                     d.vertCoords[d.bspTree[q].triDefs[1].vIndices[3] + 1]>>)

\* C23: the partition plane is in the stream for the nodes with numTri = 0
\* only, and is read back as it was written; for every node with
\* numTri > 0 of a compiled tree the plane recomputed on load from the
\* table positions of triDefs[0] is the plane the compiled tree held, and
\* loading the stream saved from a compiled tree does not end in the exit
\* of a degenerate triangle.
C23_PlaneSavedOrRecomputed ==
    /\ bspFile # NULL =>
         LET pre == Preorder(bspData.bspTree, <<>>)
             first == GetHeader(bspFile.bytes, 6).pos + 8
         IN  /\ \A n \in 1..Len(pre) :
                  LET node == bspData.bspTree[pre[n]]
                      at == RecordPlace(pre, first, n)
                  IN  /\ GetU16(bspFile.bytes, at) = node.numTri
                      /\ node.numTri = 0 =>
                           <<GetF64(bspFile.bytes, at + 2),
                             GetF64(bspFile.bytes, at + 10),
                             GetF64(bspFile.bytes, at + 18),
                             GetF64(bspFile.bytes, at + 26)>>
                             = <<node.partPlane.A, node.partPlane.B,
                                 node.partPlane.C, node.partPlane.D>>
                      /\ node.numTri > 0 =>
                           /\ GetU8(bspFile.bytes, at + 2 + 8 * node.numTri)
                                \in CFlags
                           /\ TablePlane(bspData, pre[n]).ret = 0
                           /\ TablePlane(bspData, pre[n]).plane
                                = node.partPlane
             /\ RecordPlace(pre, first, Len(pre))
                  + RecordLen(bspData.bspTree[pre[Len(pre)]].numTri)
                  = Len(bspFile.bytes) + 1
    /\ LoadedOwnBSP =>
         /\ lastLoad.end = "ok"
         /\ lastLoad.ret # NULL
         /\ DOMAIN lastLoad.ret.bspTree = DOMAIN bspData.bspTree
         /\ \A q \in DOMAIN bspData.bspTree :
              lastLoad.ret.bspTree[q].partPlane
                = bspData.bspTree[q].partPlane

\* A tree with a node of no triangle, and with a node whose plane the
\* conversion recalculated to another plane than the builder's, has been
\* saved and read back
C23_Witness ==
    /\ LoadedOwnBSP
    /\ lastLoad.end = "ok"
    /\ \E q \in DOMAIN bspData.bspTree : bspData.bspTree[q].numTri = 0
    /\ \E q \in DOMAIN bspData.bspTree :
          /\ bspData.bspTree[q].numTri > 0
          /\ bspData.bspTree[q].partPlane # bspAux.intNodes[q].partition

(***************************************************************************)
(* The model bounds                                                        *)
(***************************************************************************)
\* The ordinates on one axis (1, 2 or 3) of the entries of a vertex table,
\* in half steps
AxisOrds(d, axis) == {2 * d.vertCoords[k][axis] : k \in 1..d.nVertices}

Least(S) == CHOOSE x \in S : \A y \in S : x <= y

Largest(S) == CHOOSE x \in S : \A y \in S : x >= y

\* The bounds of d are the least and the largest ordinate of its table on
\* every axis
BoundsOfTable(d) ==
    d.nVertices > 0 =>
      /\ d.minX = Least(AxisOrds(d, 1)) /\ d.maxX = Largest(AxisOrds(d, 1))
      /\ d.minY = Least(AxisOrds(d, 2)) /\ d.maxY = Largest(AxisOrds(d, 2))
      /\ d.minZ = Least(AxisOrds(d, 3)) /\ d.maxZ = Largest(AxisOrds(d, 3))

RECURSIVE SumOver(_, _)
SumOver(f, S) ==
    IF S = {} THEN 0
    ELSE LET x == CHOOSE y \in S : TRUE
         IN  f[x] + SumOver(f, S \ {x})

\* The number of nodes on the longest path from the root of a tree to a
\* node of it, the root counted as 1
Depth(tree) ==
    Largest({Len(q) + 1 : q \in DOMAIN tree})

\* C26: the header counters of a tree returned by GenBSPTreeData agree
\* with the tree: numNodes is the number of nodes, maxDepth the number of
\* nodes on the longest path from the root, numTri the sum of the nodes'
\* numTri, and the sum of mapTriNums is numTri; the builder's current depth
\* is 0 again when the build has returned.
C26_HeaderCounters ==
    RunReturned =>
      LET d == unit.out.ret
      IN  /\ d.numNodes = Cardinality(DOMAIN d.bspTree)
          /\ d.maxDepth = Depth(d.bspTree)
          /\ d.numTri
               = SumOver([q \in DOMAIN d.bspTree |-> d.bspTree[q].numTri],
                         DOMAIN d.bspTree)
          /\ SumOver(d.mapTriNums, DOMAIN d.mapTriNums) = d.numTri
          /\ \A q \in DOMAIN d.bspTree :
                d.bspTree[q].numTri = Len(d.bspTree[q].triDefs)
          /\ unit.out.statics.currDepth = 0

\* A call after an earlier call has returned a tree of three levels whose
\* longest path is not the path of the node made last, with triangles of
\* both textures and a node that lost a triangle in the conversion
C26_Witness ==
    /\ RunReturned
    /\ unit.earlier # <<>>
    /\ unit.out.ret.maxDepth = 3
    /\ unit.out.ret.numNodes >= 4
    /\ \A i \in DOMAIN unit.out.ret.mapTriNums : unit.out.ret.mapTriNums[i] > 0
    /\ \E q \in DOMAIN unit.out.ret.bspTree :
          unit.out.ret.bspTree[q].numTri < unit.out.intNodes[q].numTri

(***************************************************************************)
(* The slots of the index arrays of GenGLData                              *)
(***************************************************************************)
\* The body of the loop of GenGLData has gone through a triangle that was
\* kept
LoopKept ==
    /\ unit.fn = "GLDTriangle"
    /\ unit.out # NULL
    /\ unit.out.kept

\* The three indices are those of table entries that match the corners of
\* the triangle
IndexesOf(d, vInd, tri) ==
    \A j \in 1..3 :
       /\ vInd[j] < d.nVertices
       /\ GLDVertMatch(d, vInd[j], tri.V[j], tri.T[j])

\* C30 as stated: the k-th triangle kept of a texture group is stored in
\* triad slot k of the index array of the group, for every k below the
\* 32-bit count mapTriNums[t]: a triangle kept when the group holds k
\* triangles goes to slot k, no slot that held a triangle is written
\* over, every slot below the new count k + 1 has been written.
C30_SlotPerTriangle ==
    LoopKept =>
      /\ unit.out.after = unit.out.before + 1
      /\ unit.out.slots >= unit.out.after
      /\ unit.out.triad # NULL
      /\ IndexesOf(unit.out, unit.out.triad, unit.tri)
      /\ unit.out.changed = {}

(***************************************************************************)
(* The vertex table as a flat array                                        *)
(***************************************************************************)
\* GetVertDefIndex has returned from a lookup
LookedUp == unit.fn = "GetVertDefIndex" /\ unit.out # NULL

\* The entries of a chain as one flat table, in the form of the table of
\* GenGLData
FlatTable(blocks) ==
    LET defs == FlattenDefs(blocks, 1)
    IN  [nVertices |-> Len(defs),
         vertCoords |-> [i \in 1..Len(defs) |-> defs[i].V],
         texCoords |-> [i \in 1..Len(defs) |-> defs[i].T]]

\* Every block of the chain but the last one is full, and no block is
\* empty
OnlyLastNotFull(blocks) ==
    \A b \in 1..Len(blocks) :
       /\ Len(blocks[b]) >= 1
       /\ Len(blocks[b]) <= DEFS_BLK_SIZE
       /\ b < Len(blocks) => Len(blocks[b]) = DEFS_BLK_SIZE

\* C24: the chain of blocks behaves as one flat array that only grows at
\* its end, with the lookup of GenGLData: GetVertDefIndex returns the index
\* of the first entry of the flat array that matches, and the number of
\* entries if none does; resV is the position of the entry found, and the
\* position looked up if a new entry was made; only the last block is ever
\* not full; numVertDefs is the number of entries; the chain flattened in
\* block order has the entry of index k at place k.
C24_ChainIsFlatTable ==
    LookedUp =>
      LET old == FlatTable(unit.g.vertDefsPtr)
          new == FlatTable(unit.out.g.vertDefsPtr)
          k == GLDFindVert(old, unit.v, unit.t)
      IN  /\ unit.out.retVal = k
          /\ k < old.nVertices =>
               /\ unit.out.resV = old.vertCoords[k + 1]
               /\ new = old
          /\ k = old.nVertices =>
               /\ unit.out.resV = unit.v
               /\ new.nVertices = k + 1
               /\ new.vertCoords = Append(old.vertCoords, unit.v)
               /\ new.texCoords = Append(old.texCoords, unit.t)
          /\ GLDVertMatch(new, k, unit.v, unit.t)
          /\ OnlyLastNotFull(unit.out.g.vertDefsPtr)
          /\ unit.out.g.numVertDefs = new.nVertices

\* The chain has two blocks and the vertex looked up is within the
\* tolerance of the last entry of the first block and of the first entry of
\* the second block: the index returned is that of the former
C24_Witness ==
    /\ LookedUp
    /\ Len(unit.g.vertDefsPtr) = 2
    /\ BSPVertMatch(unit.g.vertDefsPtr[1][DEFS_BLK_SIZE], unit.v, unit.t)
    /\ BSPVertMatch(unit.g.vertDefsPtr[2][1], unit.v, unit.t)
    /\ unit.out.retVal = DEFS_BLK_SIZE - 1

(***************************************************************************)
(* The end of the recursion of BuildBSPTree                                *)
(***************************************************************************)
\* No call is left to be made, or the build has ended in exit( )
BuildDone == unit.stack = <<>> \/ unit.end = "exit"

\* Every call still to be made has a list that holds a triangle, and the
\* call made last has kept its root triangle in its node: what it handed
\* down is its list without the triangles of the node, with the pieces of
\* the triangles it split, at most three for each, in their place
BuildHandsDown ==
    /\ \A i \in 1..Len(unit.stack) : unit.stack[i] # <<>>
    /\ unit.last # NULL =>
         /\ unit.last.kept >= 1
         /\ unit.last.front + unit.last.back
              >= unit.last.got - unit.last.kept - unit.last.split
         /\ unit.last.front + unit.last.back
              <= unit.last.got - unit.last.kept + 2 * unit.last.split

\* C29: BuildBSPTree comes to an end on every list of triangles none of
\* which is degenerate: a recursive call is made only on a list that holds
\* a triangle, every call keeps its root triangle out of the lists it hands
\* down, and after finitely many calls no call is left to be made, also
\* when splitting has made a list handed down longer than the list of the
\* call.
C29_BuildTerminates == [](BuildHandsDown) /\ <>(BuildDone)

\* A build has come to its end after a call handed down a list longer
\* than its own
C29_Witness ==
    /\ unit.stack = <<>>
    /\ unit.end = "ok"
    /\ unit.grew

(***************************************************************************)
(* No block leaked and none freed twice                                    *)
(***************************************************************************)
\* The number of blocks named blk that are allocated after the first n
\* calls of a log
RECURSIVE Live(_, _, _)
Live(log, n, blk) ==
    IF n = 0 THEN 0
    ELSE Live(log, n - 1, blk)
         + (IF log[n].blk # blk THEN 0
            ELSE IF log[n].op = "malloc" THEN 1 ELSE -1)

\* The names of the blocks of a log
Blocks(log) == {log[n].blk : n \in 1..Len(log)}

\* Every call of free is on a block that is allocated
FreesOnlyLive(log) ==
    \A n \in 1..Len(log) :
       log[n].op = "free" => Live(log, n - 1, log[n].blk) >= 1

\* The blocks a BSPTreeData is made of: the structure, the names, the
\* counters, the two tables, every node of the tree and the triDefs of
\* every node that has a triangle
BlocksOf(d) ==
    {<<"BSPTreeData">>, <<"mapNames">>, <<"texCtrs">>, <<"vertCoords">>,
     <<"texCoords">>}
    \cup {<<"mapName", i>> : i \in 1..d.nMaps}
    \cup {<<"BSPTree", q>> : q \in DOMAIN d.bspTree}
    \cup {<<"triDefs", q>> : q \in {p \in DOMAIN d.bspTree :
                                       d.bspTree[p].numTri > 0}}

\* GenBSPTreeData has returned a BSPTreeData
Compiled28 == unit.fn = "Lifecycle" /\ unit.out # NULL /\ unit.out.end = "ok"

\* C28: no block is leaked or freed twice from GenBSPTreeData to
\* FreeBSPTreeData: free is only called on an allocated block; when
\* GenBSPTreeData has returned, the allocated blocks are the blocks of the
\* BSPTreeData returned, one of each, so every working triangle, every
\* internal node and every block of the vertex table has been freed; when
\* FreeBSPTreeData has returned, no block is allocated.
C28_NoLeakNoDoubleFree ==
    Compiled28 =>
      /\ FreesOnlyLive(unit.log)
      /\ ~unit.freed =>
           \A blk \in Blocks(unit.log) :
              Live(unit.log, Len(unit.log), blk)
                = IF blk \in BlocksOf(unit.out.ret) THEN 1 ELSE 0
      /\ ~unit.freed => BlocksOf(unit.out.ret) \subseteq Blocks(unit.log)
      /\ unit.freed =>
           \A blk \in Blocks(unit.log) :
              Live(unit.log, Len(unit.log), blk) = 0

\* The call n of a log frees the block that call n - 1 allocated
FreedAtOnce(log, n) == log[n].op = "free" /\ log[n - 1] = Malloc(log[n].blk)

\* A BSPTreeData of more than one node, one of them without a triangle,
\* has been freed that was compiled with an input triangle freed for having
\* no plane, a piece of a split triangle freed for having no plane, and a
\* split triangle freed after its pieces
C28_Witness ==
    /\ Compiled28
    /\ unit.freed
    /\ Cardinality(DOMAIN unit.out.ret.bspTree) > 1
    /\ unit.out.nullDefs # {}
    /\ \E r \in 1..Len(unit.log) :
          /\ unit.log[r] = Malloc(<<"IntBSPTreeNode", <<>>>>)
          /\ \E n \in 2..r : FreedAtOnce(unit.log, n)
          /\ \E n \in (r + 1)..Len(unit.log) : FreedAtOnce(unit.log, n)
          /\ \E n \in (r + 1)..Len(unit.log) :
                /\ unit.log[n].op = "free"
                /\ unit.log[n].blk[1] = "BSPTriNode"
                /\ unit.log[n - 1].blk[1] = "BSPTriNode"
                /\ unit.log[n - 1].blk # unit.log[n].blk
=============================================================================
